---- MODULE Spec2Model ----
(***************************************************************************)
(* A model of the chain protocol layer of bittensor-quick-register:        *)
(* the extrinsic builder (client.rs create_signed_extrinsic and helpers),  *)
(* the storage reads of the client facade (get_subnet_info,                *)
(* check_registration, get_account_info), the storage addresses, the       *)
(* registration workflow (register.rs register_to_subnet), the retry loop  *)
(* around it (auto_register_with_retry) and key_utils.rs                   *)
(* account_id_from_string.                                                 *)
(*                                                                         *)
(* Bytes are naturals in 0..255 and byte strings are sequences of bytes.   *)
(* A hex string on the wire is a sequence of one-character strings.        *)
(* Amounts (u64 and u128 balances, burn costs) are held as words: the      *)
(* little-endian byte string of the type's width, so that a cast is a      *)
(* truncation of the string.  Counters that stay small in the model        *)
(* (netuid, uid, nonce, block number) are naturals.                        *)
(***************************************************************************)
EXTENDS Naturals, Sequences, FiniteSets, TLC

(***************************************************************************)
(* Bounds of the model (not program constants).                            *)
(***************************************************************************)
\* block numbers drawn for the builder: two full era periods and a bit
MaxBlock == 67
\* nonces drawn for the builder
MaxNonce == 2
\* number of off-nominal node responses in one workflow run
MaxDeviations == 2
\* number of off-nominal node responses in one run of the retry loop
MaxRetryDeviations == 1

(***************************************************************************)
(* Program constants.                                                      *)
(***************************************************************************)
\* client.rs:613  if payload.len() > 256
PayloadThreshold == 256
\* client.rs:652  let era_period = 64u64
era_period == 64
\* client.rs:626  extrinsic.push(0x84u8)
VersionByte == 132
\* client.rs:1011 call.push(8u8)
ModuleIndex == 8
\* client.rs:1014 call.push(1u8)
CallIndex == 1
\* constants.rs:8-10
SUBTENSOR_MODULE_INDEX == 8
REGISTER_CALL_INDEX == 0
BURNED_REGISTER_CALL_INDEX == 1

(***************************************************************************)
(* Fixed-width integers and bit operations on them.                        *)
(***************************************************************************)
RECURSIVE Pow2(_)
Pow2(n) == IF n = 0 THEN 1 ELSE 2 * Pow2(n - 1)

\* n.to_le_bytes() / n.encode_to() for a fixed-width unsigned integer of w bytes
RECURSIVE LE(_, _)
LE(n, w) == IF w = 0 THEN << >> ELSE <<n % 256>> \o LE(n \div 256, w - 1)

\* uN::from_le_bytes over a byte string (callers keep the value below 2^31)
RECURSIVE FromLE(_)
FromLE(bs) == IF bs = << >> THEN 0 ELSE Head(bs) + 256 * FromLE(Tail(bs))

\* a | b on w-bit unsigned integers
RECURSIVE BitOr(_, _, _)
BitOr(a, b, w) ==
    IF w = 0 THEN 0
    ELSE (IF a % 2 = 1 \/ b % 2 = 1 THEN 1 ELSE 0) + 2 * BitOr(a \div 2, b \div 2, w - 1)

\* (a as u8) << k : the bits shifted past bit 7 are dropped, the shift itself
\* does not overflow-check for k < 8
Shl8(a, k) == (a * Pow2(k)) % 256

\* u64::trailing_zeros for n > 0
RECURSIVE trailing_zeros(_)
trailing_zeros(n) == IF n % 2 = 1 THEN 0 ELSE 1 + trailing_zeros(n \div 2)

Max(a, b) == IF a >= b THEN a ELSE b

(***************************************************************************)
(* parity-scale-codec: Compact<u32> length and Vec<u8>.                    *)
(***************************************************************************)
\* Compact<u32>::encode_to (single-byte, two-byte and four-byte modes)
CompactLen(n) ==
    IF n < 64 THEN <<(4 * n) % 256>>
    ELSE IF n < 16384 THEN LE(4 * n + 1, 2)
    ELSE LE(4 * n + 2, 4)

\* <Vec<u8> as Encode>::encode_to : compact length prefix, then the bytes
EncodeVec(bytes) == CompactLen(Len(bytes)) \o bytes

(***************************************************************************)
(* External primitives, kept abstract: a digest of fixed length 32 and a   *)
(* signature of fixed length 64.  sr25519 signing draws fresh randomness,  *)
(* so the signature depends on a random input r as well.                   *)
(***************************************************************************)
RECURSIVE DigestRange(_, _, _)
DigestRange(bs, lo, hi) ==
    IF lo > hi THEN 7
    ELSE IF lo = hi THEN (((lo % 251) + 1) * (bs[lo] + 1)) % 65521
    ELSE LET mid == (lo + hi) \div 2 IN
         (DigestRange(bs, lo, mid) + 31 * DigestRange(bs, mid + 1, hi)) % 65521

Digest(bs) == DigestRange(bs, 1, Len(bs))

blake2_256(bs) == LET d == Digest(bs) IN [i \in 1..32 |-> (d + 13 * i) % 256]

sign(secret, msg, r) ==
    LET d == Digest(msg) IN [i \in 1..64 |-> (d + 17 * secret + 5 * r + 3 * i) % 256]

(***************************************************************************)
(* Extrinsic builder.                                                      *)
(***************************************************************************)
\* a variant with the call index of the proof-of-work registration
encode_register_call(netuid, hotkey, burn_amount) ==
    <<ModuleIndex, REGISTER_CALL_INDEX>> \o LE(netuid, 2) \o hotkey \o burn_amount

\* client.rs:1002-1022 (burn_amount is a u64 word: its 8 little-endian bytes)
encode_burned_register_call(netuid, hotkey, burn_amount) ==
    <<ModuleIndex, CallIndex>> \o LE(netuid, 2) \o hotkey \o burn_amount

\* client.rs:653
Phase(block_number) == block_number % era_period

\* client.rs:654-655  ((era_period.trailing_zeros() - 1).max(1) as u8)
\*                      | ((phase / (era_period >> 4)) as u8) << 6
EraByte(block_number) ==
    BitOr(Max(trailing_zeros(era_period) - 1, 1) % 256,
          Shl8((Phase(block_number) \div (era_period \div 16)) % 256, 6), 8)

\* a variant that encodes the nonce in 4 bytes, the width of AccountInfo.nonce
ExtraWithU32Nonce(nonce, block_number) ==
    <<EraByte(block_number), 0>> \o LE(nonce, 4) \o LE(0, 8)

\* client.rs:648-666 (nonce is a u64 that the model keeps below 2^31)
create_signed_extra(nonce, block_number) ==
    <<EraByte(block_number), 0>> \o LE(nonce, 8) \o LE(0, 8)

\* client.rs:608-610
SigningPayload(call, extra) == EncodeVec(call) \o EncodeVec(extra)

\* a variant that hashes every payload
SigningPayloadAlwaysHashed(payload) == blake2_256(payload)

\* client.rs:613-617
signing_payload(payload) ==
    IF Len(payload) > PayloadThreshold THEN blake2_256(payload) ELSE payload

\* client.rs:623-638
Envelope(account_id, signature, extra, call) ==
    <<VersionByte>> \o account_id \o signature \o EncodeVec(extra) \o EncodeVec(call)

\* a variant that encodes the plain length, without the top bit
LengthPrefixPlain(len) == LE(len, 4)

\* client.rs:642  ((extrinsic.len() as u32) | 0x8000_0000).encode_to(..)
\* the u32 is kept as its four little-endian bytes: the top bit is bit 7 of
\* the fourth byte
LengthPrefix(len) ==
    LET b == LE(len, 4) IN <<b[1], b[2], b[3], BitOr(b[4], 128, 8)>>

\* client.rs:641-645
final_extrinsic(extrinsic) == LengthPrefix(Len(extrinsic)) \o extrinsic

(***************************************************************************)
(* Hex strings on the wire and the state reader.                           *)
(***************************************************************************)
HexDigits == <<"0", "1", "2", "3", "4", "5", "6", "7",
               "8", "9", "a", "b", "c", "d", "e", "f">>

UpperHexDigits == <<"0", "1", "2", "3", "4", "5", "6", "7",
                    "8", "9", "A", "B", "C", "D", "E", "F">>

IsHexDigit(c) == \E i \in 1..16 : HexDigits[i] = c \/ UpperHexDigits[i] = c

HexVal(c) == (CHOOSE i \in 1..16 : HexDigits[i] = c \/ UpperHexDigits[i] = c) - 1

\* the node's rendering of a stored value: "0x" and two digits per byte
HexEncode(bs) ==
    [i \in 1..(2 * Len(bs)) |->
        IF i % 2 = 1 THEN HexDigits[(bs[(i + 1) \div 2] \div 16) + 1]
        ELSE HexDigits[(bs[i \div 2] % 16) + 1]]

Hex(bs) == <<"0", "x">> \o HexEncode(bs)

\* hex::decode : an odd length or a character that is no hex digit is an error
HexDecodeOk(cs) == Len(cs) % 2 = 0 /\ \A i \in 1..Len(cs) : IsHexDigit(cs[i])

HexDecode(cs) == [i \in 1..(Len(cs) \div 2) |-> 16 * HexVal(cs[2 * i - 1]) + HexVal(cs[2 * i])]

\* Results: Ok(value), Err(error kind) and the abort of an out-of-bounds
\* slice or index
Ok(v) == [tag |-> "Ok", val |-> v]
Err(e, what) == [tag |-> "Err", err |-> e, what |-> what]
Panic == [tag |-> "Panic"]

\* Option<Vec<u8>>
None == [some |-> FALSE]
Some(v) == [some |-> TRUE, v |-> v]

\* A state_getStorage answer of the node: a channel failure, JSON null, or a
\* string
RpcErr == [kind |-> "err"]
RpcNull == [kind |-> "null"]
RpcStr(cs) == [kind |-> "str", s |-> cs]

\* A string is a sequence of characters, and Rust slices a str by byte: the
\* characters below take two and three bytes in UTF-8, every other character
\* of the model one
TwoByteChars == {"é", "è", "ü", "ö", "ä", "ñ", "ß", "ç", "£"}

ThreeByteChars == {"€"}

Utf8Width(c) == IF c \in TwoByteChars THEN 2 ELSE IF c \in ThreeByteChars THEN 3 ELSE 1

\* &s[2..] (client.rs:321, 403, 675, 691, 704, 755, 946): the string from
\* byte 2 on; it aborts when the string has fewer than two bytes and when
\* byte 2 is inside a character
SliceFrom2(cs) ==
    IF cs = << >> THEN Panic
    ELSE IF Utf8Width(cs[1]) = 2 THEN Ok(Tail(cs))
    ELSE IF Utf8Width(cs[1]) = 1 /\ Len(cs) >= 2 /\ Utf8Width(cs[2]) = 1
    THEN Ok(SubSeq(cs, 3, Len(cs)))
    ELSE Panic

\* client.rs:311-325 (and 393-407): the request, then &hex_data[2..], then
\* hex::decode
get_bittensor_storage(storage_name, resp) ==
    IF resp.kind = "err" THEN Err("transport", storage_name)
    ELSE IF resp.kind = "null" THEN Ok(None)
    ELSE IF SliceFrom2(resp.s).tag = "Panic" THEN Panic
    ELSE IF ~HexDecodeOk(SliceFrom2(resp.s).val) THEN Err("hex", storage_name)
    ELSE Ok(Some(HexDecode(SliceFrom2(resp.s).val)))

\* client.rs:329-340 for a fixed-width T (u16, u64, U256, AccountId32): the
\* decode reads the first w bytes and fails on a shorter input
get_bittensor_storage_decoded(storage_name, resp, w) ==
    LET r == get_bittensor_storage(storage_name, resp) IN
    IF r.tag # "Ok" THEN r
    ELSE IF ~r.val.some THEN Err("not found", storage_name)
    ELSE IF Len(r.val.v) < w THEN Err("decode", storage_name)
    ELSE Ok(SubSeq(r.val.v, 1, w))

\* client.rs:343-365  .or_else(|_| Ok(default)): every error of the read is
\* replaced by the zero value of the type; an abort is not an error value
TypedGetter(storage_name, resp, w) ==
    LET r == get_bittensor_storage_decoded(storage_name, resp, w) IN
    IF r.tag = "Err" THEN Ok(LE(0, w)) ELSE r

(***************************************************************************)
(* Words: unsigned comparison of two little-endian words of equal width.   *)
(***************************************************************************)
RECURSIVE WordLt(_, _)
WordLt(a, b) ==
    IF a = << >> THEN FALSE
    ELSE LET n == Len(a) IN
         IF a[n] # b[n] THEN a[n] < b[n]
         ELSE WordLt(SubSeq(a, 1, n - 1), SubSeq(b, 1, n - 1))

(***************************************************************************)
(* Account record (System::Account).                                       *)
(***************************************************************************)
ZeroAccountInfo ==
    [nonce |-> 0, consumers |-> 0, providers |-> 0, sufficients |-> 0,
     free |-> LE(0, 16), reserved |-> LE(0, 16), frozen |-> LE(0, 16),
     flags |-> LE(0, 16)]

\* client.rs:123-140, 758: AccountInfo::decode reads 4 u32 and 4 u128, 80
\* bytes, and fails on a shorter input
CanonicalLen == 80

\* client.rs:765: if bytes.len() >= 56
FallbackMinLen == 56

\* client.rs:758-759  AccountInfo::decode: four u32 and four u128 in order;
\* bytes after the 80th are left unread
CanonicalDecode(bytes) ==
    [nonce |-> FromLE(SubSeq(bytes, 1, 4)),
     consumers |-> FromLE(SubSeq(bytes, 5, 8)),
     providers |-> FromLE(SubSeq(bytes, 9, 12)),
     sufficients |-> FromLE(SubSeq(bytes, 13, 16)),
     free |-> SubSeq(bytes, 17, 32),
     reserved |-> SubSeq(bytes, 33, 48),
     frozen |-> SubSeq(bytes, 49, 64),
     flags |-> SubSeq(bytes, 65, 80)]

\* a variant of the fixed-offset parse that reads the free balance as a u64
FallbackDecodeU64Free(bytes) ==
    [nonce |-> FromLE(SubSeq(bytes, 1, 4)),
     consumers |-> FromLE(SubSeq(bytes, 5, 8)),
     providers |-> FromLE(SubSeq(bytes, 9, 12)),
     sufficients |-> FromLE(SubSeq(bytes, 13, 16)),
     free |-> SubSeq(bytes, 17, 24) \o LE(0, 8),
     reserved |-> SubSeq(bytes, 33, 48),
     frozen |-> SubSeq(bytes, 49, 56) \o LE(0, 8),
     flags |-> LE(0, 16)]

\* client.rs:766-862  the fixed-offset parse, entered with at least 56 bytes
FallbackDecode(bytes) ==
    [nonce |-> FromLE(SubSeq(bytes, 1, 4)),
     consumers |-> FromLE(SubSeq(bytes, 5, 8)),
     providers |-> FromLE(SubSeq(bytes, 9, 12)),
     sufficients |-> FromLE(SubSeq(bytes, 13, 16)),
     free |-> SubSeq(bytes, 17, 32),
     reserved |-> IF Len(bytes) >= 48 THEN SubSeq(bytes, 33, 48) ELSE LE(0, 16),
     frozen |-> IF Len(bytes) >= 56 THEN SubSeq(bytes, 49, 56) \o LE(0, 8)
                ELSE LE(0, 16),
     flags |-> LE(0, 16)]

\* a variant that takes the fixed-offset parse whenever 56 bytes are there
DecodeFallbackFirst(bytes) ==
    IF Len(bytes) >= FallbackMinLen THEN FallbackDecode(bytes) ELSE ZeroAccountInfo

\* client.rs:754-893, from the decoded bytes on
DecodeAccountInfo(bytes) ==
    IF Len(bytes) >= CanonicalLen THEN CanonicalDecode(bytes)
    ELSE IF Len(bytes) >= FallbackMinLen THEN FallbackDecode(bytes)
    ELSE ZeroAccountInfo

\* client.rs:740-894
get_account_info(resp) ==
    IF resp.kind = "err" THEN Err("transport", "Account")
    ELSE IF resp.kind = "null" THEN Ok(ZeroAccountInfo)
    ELSE IF SliceFrom2(resp.s).tag = "Panic" THEN Panic
    ELSE IF ~HexDecodeOk(SliceFrom2(resp.s).val) THEN Err("hex", "Account")
    ELSE Ok(DecodeAccountInfo(HexDecode(SliceFrom2(resp.s).val)))

\* client.rs:735-738  account_info.data.free as u64
get_account_balance(resp) ==
    LET r == get_account_info(resp) IN
    IF r.tag = "Ok" THEN Ok(SubSeq(r.val.free, 1, 8)) ELSE r

\* the node's canonical encoding of an account record
EncodeAccount(nonce, free) ==
    LE(nonce, 4) \o LE(0, 4) \o LE(1, 4) \o LE(0, 4)
    \o free \o LE(0, 16) \o LE(0, 16) \o LE(0, 16)

(***************************************************************************)
(* State.                                                                  *)
(*   workflow: one logical actor running one facade or workflow operation  *)
(*   flows:    two submit_burned_registration flows of one signer and the  *)
(*             chain they talk to                                          *)
(*   builder:  create_signed_extrinsic applied to drawn inputs             *)
(***************************************************************************)
VARIABLES
    op,       \* the operation the actor was asked to run
    pc,       \* the await point the actor is at
    ret,      \* who called the check_registration in progress
    loc,      \* the locals of the workflow
    rpcLog,   \* every request sent on the channel, in order (per attempt in a retry run)
    result,   \* the result the operation returned ("Pending" before)
    devs,     \* off-nominal responses so far
    si,       \* the get_subnet_info call in progress (or last finished)
    cr,       \* the check_registration call in progress (or last finished)
    ar,       \* the auto_register_with_retry call around the workflow, if any
    chain,    \* flows: the chain's state
    flows,    \* flows: each flow's position and locals
    bld,      \* builder: inputs and intermediate values
    rd        \* reader: one node answer and what a read operation made of it

wfVars == <<op, pc, ret, loc, rpcLog, result, devs, si, cr, ar>>
flVars == <<chain, flows>>
bldVars == <<bld>>
rdVars == <<rd>>
vars == <<wfVars, flVars, bldVars, rdVars>>

Pending == [tag |-> "Pending"]

(***************************************************************************)
(* The node's answers.                                                     *)
(***************************************************************************)
\* a present value of w bytes holding the small number n
Stored(n, w) == RpcStr(Hex(LE(n, w)))

\* answers that are not a well-formed value of the expected width: a channel
\* failure, no value, a value one byte short, a string that is not hex, a
\* string shorter than its "0x" prefix
Deviant(w) ==
    {RpcErr, RpcNull, RpcStr(Hex(LE(1, w - 1))), RpcStr(<<"0", "x", "z", "z">>),
     RpcStr(<<"0">>)}

\* the class of an answer to a read of a w-byte value, as the reader sees it
Class(resp, w) ==
    IF resp.kind = "err" THEN "transport"
    ELSE IF resp.kind = "null" THEN "absent"
    ELSE IF SliceFrom2(resp.s).tag = "Panic" THEN "no prefix"
    ELSE IF ~HexDecodeOk(SliceFrom2(resp.s).val) THEN "hex"
    ELSE IF Len(SliceFrom2(resp.s).val) < 2 * w THEN "short"
    ELSE "value"

\* the budget of off-nominal answers
Charge(resp, nominal) == IF resp \in nominal THEN devs ELSE devs + 1

\* (a run of auto_register_with_retry has a budget of its own)
DeviationBudget == IF ar.pc = "idle" THEN MaxDeviations ELSE MaxRetryDeviations

Affordable(resp, nominal) == resp \in nominal \/ devs < DeviationBudget

\* chain_getBlockHash and chain_getHeader answers
HashAnswers == {RpcErr, [kind |-> "hash"]}

BlockChoices == {3, 4}

HeaderAnswers ==
    {RpcErr, [kind |-> "malformed"]}
    \cup {[kind |-> "header", number |-> n] : n \in BlockChoices}

NominalChainAnswers ==
    {[kind |-> "hash"]} \cup {[kind |-> "header", number |-> n] : n \in BlockChoices}

\* client.rs:570-574
BlockHashResult(resp) ==
    IF resp.kind = "err" THEN Err("transport", "chain_getBlockHash") ELSE Ok("hash")

\* client.rs:576-587
HeaderResult(resp) ==
    IF resp.kind = "err" THEN Err("transport", "chain_getHeader")
    ELSE IF resp.kind = "malformed" THEN Err("Invalid block number format", "chain_getHeader")
    ELSE Ok(resp.number)

(***************************************************************************)
(* get_subnet_info (client.rs:164-277), one action per request.            *)
(***************************************************************************)
\* client.rs:209-230: the snapshot fields in the order they are read, with
\* the width of the type each is decoded to
Fields ==
    <<[name |-> "Difficulty", w |-> 32], [name |-> "Tempo", w |-> 2],
      [name |-> "ImmunityPeriod", w |-> 2], [name |-> "MinAllowedWeights", w |-> 2],
      [name |-> "MaxWeightsLimit", w |-> 2], [name |-> "MaxAllowedValidators", w |-> 2],
      [name |-> "MaxAllowedUids", w |-> 2], [name |-> "Burn", w |-> 8],
      [name |-> "SubnetOwner", w |-> 32], [name |-> "NetworkModality", w |-> 2],
      [name |-> "EmissionValues", w |-> 8], [name |-> "Rho", w |-> 2],
      [name |-> "Kappa", w |-> 2], [name |-> "ScalingLawPower", w |-> 2],
      [name |-> "BlocksSinceLastStep", w |-> 8]>>

NFields == Len(Fields)

\* the value the node holds for every snapshot field
FieldValue == 5

\* the frame of a call with show_info = false (register.rs:79)
SiFresh(netuid) ==
    [netuid |-> netuid, show_info |-> FALSE, sn |-> "unread", tn |-> "unread", subnetwork_n |-> 0, vals |-> << >>,
     kinds |-> << >>, reads |-> << >>, out |-> Pending]

CrFresh(netuid, hotkey) ==
    [netuid |-> netuid, hotkey |-> hotkey, uids |-> "unread", neurons |-> "unread",
     uid |-> 0, reads |-> << >>, out |-> Pending]

Req(method, what) == <<method, what>>

StorageReq(name) == Req("state_getStorage", name)

\* where the actor goes when get_subnet_info returns r: to the caller's next
\* step on Ok, out of the operation on an error (the ? operator) or an abort.
\* register_to_subnet keeps the burn cost of the snapshot (register.rs:79,
\* 86); the callee's frame is gone once it has returned there
SiReturnPc(r) ==
    IF op = "register_to_subnet" /\ r.tag = "Ok" THEN "rs_block_hash" ELSE "done"

SiReturnResult(r) ==
    IF op = "register_to_subnet" /\ r.tag = "Ok" THEN result ELSE r

SiReturnLoc(r) ==
    IF op = "register_to_subnet" /\ r.tag = "Ok"
    THEN [loc EXCEPT !.subnet_burn = r.val.burn] ELSE loc

\* client.rs:178-206
SubnetworkNStep(resp) ==
    LET r == get_bittensor_storage("SubnetworkN", resp) IN
    IF r.tag # "Ok" THEN [next |-> "return", out |-> r, n |-> 0]
    ELSE IF ~r.val.some THEN [next |-> "si_TotalNetworks", out |-> Pending, n |-> 0]
    ELSE IF Len(r.val.v) < 2 THEN [next |-> "return", out |-> Panic, n |-> 0]
    ELSE IF FromLE(SubSeq(r.val.v, 1, 2)) = 0
         THEN [next |-> "return", out |-> Err("does not exist", "has 0 neurons"), n |-> 0]
    ELSE [next |-> "si_field", out |-> Pending, n |-> FromLE(SubSeq(r.val.v, 1, 2))]

\* a subnet with 3 neurons, one with none, one that does not exist
SubnetworkNNominal == {Stored(3, 2), Stored(0, 2), RpcNull}

SubnetworkNAnswers == SubnetworkNNominal \cup Deviant(2)

SiSubnetworkN ==
    /\ pc = "si_SubnetworkN"
    /\ \E resp \in SubnetworkNAnswers :
        LET st == SubnetworkNStep(resp)
            si2 == [si EXCEPT !.sn = Class(resp, 2), !.subnetwork_n = st.n,
                              !.reads = Append(@, "SubnetworkN"), !.out = st.out]
        IN /\ Affordable(resp, SubnetworkNNominal)
           /\ devs' = Charge(resp, SubnetworkNNominal)
           /\ rpcLog' = Append(rpcLog, StorageReq("SubnetworkN"))
           /\ si' = si2
           /\ pc' = IF st.next = "return" THEN SiReturnPc(st.out) ELSE st.next
           /\ result' = IF st.next = "return" THEN SiReturnResult(st.out) ELSE result
           /\ loc' = loc
    /\ UNCHANGED <<op, ret, cr, flVars, bldVars, rdVars, ar>>

\* client.rs:181-197
TotalNetworksStep(resp) ==
    LET r == get_bittensor_storage("TotalNetworks", resp) IN
    IF r.tag # "Ok" THEN r
    ELSE IF ~r.val.some THEN Err("does not exist", "")
    ELSE IF Len(r.val.v) < 2 THEN Panic
    ELSE Err("does not exist", "total networks on chain")

SiTotalNetworks ==
    /\ pc = "si_TotalNetworks"
    /\ \E resp \in {Stored(12, 2)} \cup Deviant(2) :
        LET out == TotalNetworksStep(resp) IN
        /\ Affordable(resp, {Stored(12, 2)})
        /\ devs' = Charge(resp, {Stored(12, 2)})
        /\ rpcLog' = Append(rpcLog, StorageReq("TotalNetworks"))
        /\ si' = [si EXCEPT !.tn = Class(resp, 2), !.reads = Append(@, "TotalNetworks"),
                            !.out = out]
        /\ pc' = "done"
        /\ result' = out
    /\ UNCHANGED <<op, ret, loc, cr, flVars, bldVars, rdVars, ar>>

\* client.rs:209-230: the read of the next snapshot field
SiField ==
    /\ pc = "si_field"
    /\ LET i == Len(si.vals) + 1
           f == Fields[i]
       IN \E resp \in {Stored(FieldValue, f.w)} \cup Deviant(f.w) :
           LET r == TypedGetter(f.name, resp, f.w) IN
           /\ Affordable(resp, {Stored(FieldValue, f.w)})
           /\ devs' = Charge(resp, {Stored(FieldValue, f.w)})
           /\ rpcLog' = Append(rpcLog, StorageReq(f.name))
           /\ IF r.tag = "Ok"
              THEN /\ si' = [si EXCEPT !.vals = Append(@, r.val),
                                       !.kinds = Append(@, Class(resp, f.w)),
                                       !.reads = Append(@, f.name)]
                   /\ pc' = IF i = NFields THEN "si_block_hash" ELSE "si_field"
                   /\ result' = result
              ELSE /\ si' = [si EXCEPT !.kinds = Append(@, Class(resp, f.w)),
                                       !.reads = Append(@, f.name), !.out = r]
                   /\ pc' = "done"
                   /\ result' = r
    /\ UNCHANGED <<op, ret, loc, cr, flVars, bldVars, rdVars, ar>>

\* client.rs:232, 570-574
SiBlockHash ==
    /\ pc = "si_block_hash"
    /\ \E resp \in HashAnswers :
        LET r == BlockHashResult(resp) IN
        /\ Affordable(resp, NominalChainAnswers)
        /\ devs' = Charge(resp, NominalChainAnswers)
        /\ rpcLog' = Append(rpcLog, Req("chain_getBlockHash", "best"))
        /\ si' = [si EXCEPT !.reads = Append(@, "chain_getBlockHash"),
                            !.out = IF r.tag = "Ok" THEN Pending ELSE r]
        /\ pc' = IF r.tag = "Ok" THEN "si_header" ELSE "done"
        /\ result' = IF r.tag = "Ok" THEN result ELSE r
    /\ UNCHANGED <<op, ret, loc, cr, flVars, bldVars, rdVars, ar>>

\* client.rs:253-276: the snapshot, field by field
SubnetInfo(s) ==
    [netuid |-> s.netuid, difficulty |-> s.vals[1], tempo |-> s.vals[2],
     immunity_period |-> s.vals[3], min_allowed_weights |-> s.vals[4],
     max_weight_limit |-> s.vals[5], max_allowed_validators |-> s.vals[6],
     max_n |-> s.vals[7], burn |-> s.vals[8], owner |-> s.vals[9],
     modality |-> s.vals[10], emission_value |-> s.vals[11], rho |-> s.vals[12],
     kappa |-> s.vals[13], scaling_law_power |-> s.vals[14],
     blocks_since_epoch |-> s.vals[15], subnetwork_n |-> s.subnetwork_n]

\* client.rs:232-251, 576-587, 253-276: with show_info the owner's account is
\* examined before the snapshot is returned
SiHeader ==
    /\ pc = "si_header"
    /\ \E resp \in HeaderAnswers :
        LET r == HeaderResult(resp)
            out == IF r.tag = "Ok" THEN Ok(SubnetInfo(si)) ELSE r
            debug == r.tag = "Ok" /\ si.show_info
        IN /\ Affordable(resp, NominalChainAnswers)
           /\ devs' = Charge(resp, NominalChainAnswers)
           /\ rpcLog' = Append(rpcLog, Req("chain_getHeader", "best"))
           /\ si' = IF debug THEN [si EXCEPT !.reads = Append(@, "chain_getHeader")]
                    ELSE IF op = "register_to_subnet" /\ out.tag = "Ok"
                    THEN SiFresh(si.netuid)
                    ELSE [si EXCEPT !.reads = Append(@, "chain_getHeader"), !.out = out]
           /\ pc' = IF debug THEN "da_storage" ELSE SiReturnPc(out)
           /\ result' = IF debug THEN result ELSE SiReturnResult(out)
           /\ loc' = IF debug THEN loc ELSE SiReturnLoc(out)
    /\ UNCHANGED <<op, ret, cr, flVars, bldVars, rdVars, ar>>

(***************************************************************************)
(* check_registration (client.rs:458-522), one action per request.         *)
(***************************************************************************)
\* client.rs:487-508: the placeholder record built from hotkey, uid, netuid
NeuronInfo(c, uid) ==
    [hotkey |-> c.hotkey, coldkey |-> LE(0, 32), uid |-> uid, netuid |-> c.netuid,
     active |-> TRUE]

\* register.rs:152  for attempt in 1..=5
VerifyAttempts == 5

\* a variant in which register_to_subnet goes on after an "already
\* registered" answer
CrReturnPcGoesOnWhenFound(r) ==
    IF r.tag # "Ok" THEN "done"
    ELSE IF ret = "register" THEN "si_SubnetworkN"
    ELSE IF ret = "verify"
         THEN (IF r.val.some \/ loc.attempt = VerifyAttempts THEN "done" ELSE "vr_sleep")
    ELSE "done"

\* a variant in which verification fails when the last check finds nothing
CrReturnResultFailsUnverified(r) ==
    IF r.tag # "Ok" THEN r
    ELSE IF ret = "register" THEN (IF r.val.some THEN Ok("already registered") ELSE result)
    ELSE IF ret = "verify"
         THEN (IF r.val.some THEN Ok("verified")
               ELSE IF loc.attempt = VerifyAttempts THEN Err("not verified", "")
               ELSE result)
    ELSE r

\* where the actor goes when check_registration returns r to its caller:
\*   register_to_subnet step 2 (register.rs:66-76)
\*   verify_registration's loop (register.rs:152-176)
CrReturnPc(r) ==
    IF r.tag # "Ok" THEN "done"
    ELSE IF ret = "register" THEN (IF r.val.some THEN "done" ELSE "si_SubnetworkN")
    ELSE IF ret = "verify"
         THEN (IF r.val.some \/ loc.attempt = VerifyAttempts THEN "done" ELSE "vr_sleep")
    ELSE "done"

CrReturnResult(r) ==
    IF r.tag # "Ok" THEN r
    ELSE IF ret = "register" THEN (IF r.val.some THEN Ok("already registered") ELSE result)
    ELSE IF ret = "verify"
         THEN (IF r.val.some THEN Ok("verified")
               ELSE IF loc.attempt = VerifyAttempts THEN Ok("may still be processing")
               ELSE result)
    ELSE r

\* a variant that issues the Neurons read with uid 0 when the uid is absent
UidsStepReadsNeuronsAnyway(resp) ==
    LET r == get_bittensor_storage("Uids", resp) IN
    IF r.tag # "Ok" THEN [next |-> "return", out |-> r, uid |-> 0]
    ELSE IF r.val.some /\ Len(r.val.v) >= 2
         THEN [next |-> "cr_Neurons", out |-> Pending, uid |-> FromLE(SubSeq(r.val.v, 1, 2))]
    ELSE IF ~r.val.some THEN [next |-> "cr_Neurons", out |-> Pending, uid |-> 0]
    ELSE [next |-> "return", out |-> Ok(None), uid |-> 0]

\* client.rs:466-476
UidsStep(resp) ==
    LET r == get_bittensor_storage("Uids", resp) IN
    IF r.tag # "Ok" THEN [next |-> "return", out |-> r, uid |-> 0]
    ELSE IF r.val.some /\ Len(r.val.v) >= 2
         THEN [next |-> "cr_Neurons", out |-> Pending, uid |-> FromLE(SubSeq(r.val.v, 1, 2))]
    ELSE [next |-> "return", out |-> Ok(None), uid |-> 0]

UidsAnswers == {RpcNull, Stored(9, 2)} \cup Deviant(2)

CrUids ==
    /\ pc = "cr_Uids"
    /\ \E resp \in UidsAnswers :
        LET st == UidsStep(resp) IN
        /\ Affordable(resp, {RpcNull, Stored(9, 2)})
        /\ devs' = Charge(resp, {RpcNull, Stored(9, 2)})
        /\ rpcLog' = Append(rpcLog, StorageReq("Uids"))
        /\ cr' = [cr EXCEPT !.uids = Class(resp, 2), !.uid = st.uid,
                            !.reads = Append(@, "Uids"), !.out = st.out]
        /\ pc' = IF st.next = "return" THEN CrReturnPc(st.out) ELSE st.next
        /\ result' = IF st.next = "return" THEN CrReturnResult(st.out) ELSE result
        /\ si' = IF st.next = "return" /\ CrReturnPc(st.out) = "si_SubnetworkN"
                 THEN SiFresh(cr.netuid) ELSE si
    /\ UNCHANGED <<op, ret, loc, flVars, bldVars, rdVars, ar>>

\* client.rs:478-521
NeuronsResult(c, r) ==
    IF r.tag # "Ok" THEN r
    ELSE IF r.val.some THEN Ok(Some(NeuronInfo(c, c.uid)))
    ELSE Ok(None)

\* the neuron record's content is not decoded: any present value will do
NeuronsAnswers == {RpcNull, Stored(1, 4)} \cup Deviant(4)

CrNeurons ==
    /\ pc = "cr_Neurons"
    /\ \E resp \in NeuronsAnswers :
        LET out == NeuronsResult(cr, get_bittensor_storage("Neurons", resp)) IN
        /\ Affordable(resp, {RpcNull, Stored(1, 4)})
        /\ devs' = Charge(resp, {RpcNull, Stored(1, 4)})
        /\ rpcLog' = Append(rpcLog, StorageReq("Neurons"))
        /\ cr' = [cr EXCEPT !.neurons = Class(resp, 0), !.reads = Append(@, "Neurons"),
                            !.out = out]
        /\ pc' = CrReturnPc(out)
        /\ result' = CrReturnResult(out)
        /\ si' = IF CrReturnPc(out) = "si_SubnetworkN" THEN SiFresh(cr.netuid) ELSE si
    /\ UNCHANGED <<op, ret, loc, flVars, bldVars, rdVars, ar>>

(***************************************************************************)
(* key_utils.rs load_keypair_from_file and account_id_from_string.  The    *)
(* string is a sequence of one-character strings; the file system and the  *)
(* key parsers (Sr25519Pair::from_string, from_ss58check) are the          *)
(* environment: whether the path exists, what the file holds and what the  *)
(* parser called on the string returns are inputs.  via names the branch   *)
(* taken.                                                                  *)
(***************************************************************************)
\* key_utils.rs:64  account.len() == 48
Ss58Len == 48

AsciiAlphanumeric ==
    {"0", "1", "2", "3", "4", "5", "6", "7", "8", "9",
     "a", "b", "c", "d", "e", "f", "g", "h", "i", "j", "k", "l", "m",
     "n", "o", "p", "q", "r", "s", "t", "u", "v", "w", "x", "y", "z",
     "A", "B", "C", "D", "E", "F", "G", "H", "I", "J", "K", "L", "M",
     "N", "O", "P", "Q", "R", "S", "T", "U", "V", "W", "X", "Y", "Z"}

StartsWithSlashes(cs) == Len(cs) >= 2 /\ cs[1] = "/" /\ cs[2] = "/"

LooksLikeSs58(cs) == Len(cs) = Ss58Len /\ \A i \in 1..Len(cs) : cs[i] \in AsciiAlphanumeric

\* what fs::read_to_string and serde_json make of the file at a path: it
\* cannot be read, it starts with a brace and is not a key file, it is a key
\* file with a seed, with a phrase only, or with neither, or it is a bare
\* seed or phrase
FileKinds ==
    {"unreadable", "json_invalid", "json_seed", "json_phrase", "json_neither", "raw"}

\* key_utils.rs:12-53
load_keypair_from_file(path, exists, file, parsed) ==
    IF StartsWithSlashes(path) THEN [via |-> "dev", res |-> parsed]
    ELSE IF exists
         THEN [via |-> "file",
               res |-> IF file = "unreadable" THEN Err("Failed to read key file", "")
                       ELSE IF file = "json_invalid"
                            THEN Err("Invalid JSON key file format", "")
                       ELSE IF file = "json_neither"
                            THEN Err("Key file missing secretSeed or secretPhrase", "")
                       ELSE parsed]
    ELSE [via |-> "seed", res |-> parsed]

\* key_utils.rs:58, 63, 70  Ok(AccountId32::from(pair.public().0)) after the ?
PublicOf(r) == IF r.tag = "Ok" THEN Ok(r.val.public) ELSE r

\* a variant that tests for an address before it tests for a file
AccountIdAddressBeforeFile(account, exists, file, pair, address) ==
    IF StartsWithSlashes(account) THEN [via |-> "dev", res |-> PublicOf(pair)]
    ELSE IF LooksLikeSs58(account)
         THEN [via |-> "ss58",
               res |-> IF address.tag = "Ok" THEN address
                       ELSE Err("Invalid SS58 address", "")]
    ELSE IF exists
         THEN [via |-> "file",
               res |-> PublicOf(load_keypair_from_file(account, exists, file, pair).res)]
    ELSE IF Len(account) # 0 THEN [via |-> "seed", res |-> PublicOf(pair)]
    ELSE [via |-> "empty", res |-> Err("Empty account string provided", "")]

\* key_utils.rs:55-74: pair is what Sr25519Pair::from_string returns for the
\* string it is given, address what from_ss58check returns, file what the
\* file at the path holds
account_id_from_string(account, exists, file, pair, address) ==
    IF StartsWithSlashes(account) THEN [via |-> "dev", res |-> PublicOf(pair)]
    ELSE IF exists
         THEN [via |-> "file",
               res |-> PublicOf(load_keypair_from_file(account, exists, file, pair).res)]
    ELSE IF LooksLikeSs58(account)
         THEN [via |-> "ss58",
               res |-> IF address.tag = "Ok" THEN address
                       ELSE Err("Invalid SS58 address", "")]
    ELSE IF Len(account) # 0 THEN [via |-> "seed", res |-> PublicOf(pair)]
    ELSE [via |-> "empty", res |-> Err("Empty account string provided", "")]

(***************************************************************************)
(* register_to_subnet (register.rs:41-113) with perform_burn_registration, *)
(* submit_burned_registration, create_signed_extrinsic and                 *)
(* verify_registration, one action per request.                            *)
(***************************************************************************)
\* an account id: 32 bytes
AccountId(k) == [i \in 1..32 |-> (k + i) % 256]

\* a key pair: the secret stands for the private key material
KeyPair(k) == [secret |-> k, public |-> AccountId(k)]

\* the wallet_path arguments of a run: a dev key the parser accepts, a
\* phrase it rejects, and a key file with neither a seed nor a phrase
WalletArgs ==
    {[path |-> <<"/", "/", "A">>, exists |-> FALSE, file |-> "raw",
      parsed |-> Ok(KeyPair(2))],
     [path |-> <<"a", " ", "b">>, exists |-> FALSE, file |-> "raw",
      parsed |-> Err("key", "")],
     [path |-> <<"k", ".", "j">>, exists |-> TRUE, file |-> "json_neither",
      parsed |-> Err("key", "")]}

\* the hotkey_path arguments of a run: a dev key the parser accepts, the
\* empty string, and a phrase the parser rejects
HotkeyArgs ==
    {[account |-> <<"/", "/", "B">>, exists |-> FALSE, file |-> "raw",
      pair |-> Ok(KeyPair(1)), address |-> Err("ss58", "")],
     [account |-> << >>, exists |-> FALSE, file |-> "raw",
      pair |-> Err("key", ""), address |-> Err("ss58", "")],
     [account |-> <<"a", " ", "b">>, exists |-> FALSE, file |-> "raw",
      pair |-> Err("key", ""), address |-> Err("ss58", "")]}

RegisterArgs == [wallet : WalletArgs, hotkey : HotkeyArgs]

\* the arguments both of which load
GoodArgs ==
    CHOOSE a \in RegisterArgs : a.wallet.parsed.tag = "Ok" /\ a.hotkey.pair.tag = "Ok"

\* the locals of register_to_subnet; hotkey and coldkey are assigned when the
\* keys are loaded (register.rs:54-59)
Loc0 ==
    [args |-> GoodArgs,
     netuid |-> 1, hotkey |-> AccountId(1), coldkey |-> KeyPair(2),
     subnet_burn |-> LE(0, 8), current_block |-> 0, checked |-> FALSE,
     balance |-> LE(0, 8), burn_cost |-> LE(0, 8),
     registration_data |-> [subnet_id |-> 0, hotkey |-> << >>, coldkey |-> << >>,
                            burn_amount |-> << >>, block_number |-> 0],
     account_info |-> ZeroAccountInfo, se_block |-> 0, built |-> FALSE,
     xt |-> << >>, attempt |-> 0]

\* the caller's burn_amount: None, or an explicit amount
BurnArgs == {None, Some(LE(2, 8))}

\* register.rs:353: auto_register_with_retry passes None
BurnArgsOf(a) == IF a.pc = "idle" THEN BurnArgs ELSE {None}

\* free balances the chain may hold for the coldkey: 3, 9, and 2^64 + 1
FreeChoices == {LE(3, 16), LE(9, 16), LE(1, 8) \o LE(1, 8)}

\* the nonce the chain holds for the coldkey in a workflow run
WorkflowNonce == 1

AccountNominal == {RpcStr(Hex(EncodeAccount(WorkflowNonce, f))) : f \in FreeChoices}

\* a record in the 56-byte layout and one too short for any layout
AccountDeviant ==
    {RpcErr, RpcNull, RpcStr(<<"0", "x", "z", "z">>), RpcStr(<<"0">>),
     RpcStr(Hex(LE(WorkflowNonce, 4) \o LE(0, 12) \o LE(9, 16) \o LE(0, 24))),
     RpcStr(Hex(LE(WorkflowNonce, 4) \o LE(0, 12) \o LE(9, 16)))}

\* client.rs:934-950: what debug_account_info makes of its own read of the
\* account: an error or no value ends it, a string shorter than two
\* characters aborts at &hex_data[2..], a value leads to get_account_info
DebugStorageStep(resp) ==
    IF resp.kind = "err"
    THEN [next |-> "return", out |-> Err("Failed to get account info", "Account")]
    ELSE IF resp.kind = "null" THEN [next |-> "return", out |-> Ok("no data")]
    ELSE IF SliceFrom2(resp.s).tag = "Panic" THEN [next |-> "return", out |-> Panic]
    ELSE IF ~HexDecodeOk(SliceFrom2(resp.s).val)
    THEN [next |-> "return", out |-> Err("Invalid hex data", "Account")]
    ELSE [next |-> "da_account_info", out |-> Pending]

\* client.rs:246-253: get_subnet_info prints the error of debug_account_info
\* and returns the snapshot; an abort is not an error
AfterDebug(r, s) == IF r.tag = "Panic" THEN Panic ELSE Ok(SubnetInfo(s))

\* client.rs:920-950: debug_account_info on the subnet owner, its own read
DaStorage ==
    /\ pc = "da_storage"
    /\ \E resp \in AccountNominal \cup AccountDeviant :
        LET d == DebugStorageStep(resp)
            out == AfterDebug(d.out, si)
        IN /\ Affordable(resp, AccountNominal)
           /\ devs' = Charge(resp, AccountNominal)
           /\ rpcLog' = Append(rpcLog, StorageReq("Account"))
           /\ si' = IF d.next = "return"
                    THEN [si EXCEPT !.reads = Append(@, "Account"), !.out = out]
                    ELSE [si EXCEPT !.reads = Append(@, "Account")]
           /\ pc' = IF d.next = "return" THEN SiReturnPc(out) ELSE d.next
           /\ result' = IF d.next = "return" THEN SiReturnResult(out) ELSE result
    /\ UNCHANGED <<op, ret, loc, cr, flVars, bldVars, rdVars, ar>>

\* client.rs:952-977: debug_account_info calls get_account_info and prints
\* what it returned
DaAccountInfo ==
    /\ pc = "da_account_info"
    /\ \E resp \in AccountNominal \cup AccountDeviant :
        LET out == AfterDebug(get_account_info(resp), si) IN
        /\ Affordable(resp, AccountNominal)
        /\ devs' = Charge(resp, AccountNominal)
        /\ rpcLog' = Append(rpcLog, StorageReq("Account"))
        /\ si' = [si EXCEPT !.reads = Append(@, "Account"), !.out = out]
        /\ pc' = SiReturnPc(out)
        /\ result' = SiReturnResult(out)
    /\ UNCHANGED <<op, ret, loc, cr, flVars, bldVars, rdVars, ar>>

\* register.rs:54-59: the keys are loaded before any request is sent
RsLoadKeys ==
    /\ pc = "rs_load_keys"
    /\ LET w == loc.args.wallet
           h == loc.args.hotkey
           coldkey_pair == load_keypair_from_file(w.path, w.exists, w.file, w.parsed).res
           hotkey_account == account_id_from_string(h.account, h.exists, h.file, h.pair,
                                                    h.address).res
           r == IF coldkey_pair.tag # "Ok"
                THEN Err("Failed to load wallet/coldkey", coldkey_pair.err)
                ELSE IF hotkey_account.tag # "Ok"
                THEN Err("Failed to load hotkey", hotkey_account.err)
                ELSE Ok("loaded")
       IN /\ pc' = IF r.tag = "Ok" THEN "cr_Uids" ELSE "done"
          /\ result' = IF r.tag = "Ok" THEN result ELSE r
          /\ loc' = IF r.tag = "Ok"
                    THEN [loc EXCEPT !.coldkey = coldkey_pair.val,
                                     !.hotkey = hotkey_account.val]
                    ELSE loc
          /\ cr' = IF r.tag = "Ok" THEN CrFresh(loc.netuid, hotkey_account.val) ELSE cr
    /\ UNCHANGED <<op, ret, rpcLog, devs, si, flVars, bldVars, rdVars, ar>>

\* register.rs:82, client.rs:570-574
RsBlockHash ==
    /\ pc = "rs_block_hash"
    /\ \E resp \in HashAnswers :
        LET r == BlockHashResult(resp) IN
        /\ Affordable(resp, NominalChainAnswers)
        /\ devs' = Charge(resp, NominalChainAnswers)
        /\ rpcLog' = Append(rpcLog, Req("chain_getBlockHash", "best"))
        /\ pc' = IF r.tag = "Ok" THEN "rs_header" ELSE "done"
        /\ result' = IF r.tag = "Ok" THEN result ELSE r
    /\ UNCHANGED <<op, ret, loc, si, cr, flVars, bldVars, rdVars, ar>>

\* register.rs:82, client.rs:576-587
RsHeader ==
    /\ pc = "rs_header"
    /\ \E resp \in HeaderAnswers :
        LET r == HeaderResult(resp) IN
        /\ Affordable(resp, NominalChainAnswers)
        /\ devs' = Charge(resp, NominalChainAnswers)
        /\ rpcLog' = Append(rpcLog, Req("chain_getHeader", "best"))
        /\ pc' = IF r.tag = "Ok" THEN "pb_balance" ELSE "done"
        /\ result' = IF r.tag = "Ok" THEN result ELSE r
        /\ loc' = IF r.tag = "Ok" THEN [loc EXCEPT !.current_block = r.val] ELSE loc
    /\ UNCHANGED <<op, ret, si, cr, flVars, bldVars, rdVars, ar>>

\* register.rs:86  burn_amount.unwrap_or(subnet_info.burn)
BurnCost(burn_arg, subnet_burn) == IF burn_arg.some THEN burn_arg.v ELSE subnet_burn

\* a variant without the balance test
NeverInsufficient(balance, burn_amount) == FALSE

\* register.rs:129  if balance < burn_amount
InsufficientBalance(balance, burn_amount) == WordLt(balance, burn_amount)

\* register.rs:139-145
RegistrationData(l, burn_amount) ==
    [subnet_id |-> l.netuid, hotkey |-> l.hotkey, coldkey |-> l.coldkey.public,
     burn_amount |-> burn_amount, block_number |-> l.current_block]

\* register.rs:116-146 with the unwrap_or of register.rs:86
PbBalance ==
    /\ pc = "pb_balance"
    /\ \E resp \in AccountNominal \cup AccountDeviant, burn_arg \in BurnArgsOf(ar) :
        LET r == get_account_balance(resp)
            cost == BurnCost(burn_arg, loc.subnet_burn)
            short == r.tag = "Ok" /\ InsufficientBalance(r.val, cost)
        IN /\ Affordable(resp, AccountNominal)
           /\ devs' = Charge(resp, AccountNominal)
           /\ rpcLog' = Append(rpcLog, StorageReq("Account"))
           /\ pc' = IF r.tag = "Ok" /\ ~short THEN "se_account" ELSE "done"
           /\ result' = IF r.tag # "Ok" THEN r
                        ELSE IF short THEN Err("Insufficient balance", "")
                        ELSE result
           /\ loc' = IF r.tag # "Ok" THEN loc
                     ELSE [loc EXCEPT !.checked = TRUE, !.balance = r.val,
                                      !.burn_cost = cost,
                                      !.registration_data =
                                          IF short THEN @ ELSE RegistrationData(loc, cost)]
    /\ UNCHANGED <<op, ret, si, cr, flVars, bldVars, rdVars, ar>>

(***************************************************************************)
(* submit_burned_registration (client.rs:983-999) and                      *)
(* create_signed_extrinsic (client.rs:591-646).                            *)
(***************************************************************************)
\* answers to a request whose result is a hash string
HashStrNominal == {RpcStr(Hex(LE(7, 32)))}

HashStrAnswers == HashStrNominal \cup {RpcErr, RpcStr(<<"0", "x", "z", "z">>), RpcStr(<<"0">>)}

\* client.rs:668-676, 678-692, 694-705: H256::from_str(&result[2..])
HashStrResult(method, resp) ==
    IF resp.kind = "err" THEN Err("transport", method)
    ELSE IF SliceFrom2(resp.s).tag = "Panic" THEN Panic
    ELSE IF ~HexDecodeOk(SliceFrom2(resp.s).val) \/ Len(SliceFrom2(resp.s).val) # 64
         THEN Err("hash format", method)
    ELSE Ok("hash")

\* variants that ignore the reads: a fixed nonce, the request's block number
ZeroNonce(request, account_info) == 0

RequestBlock(request, current_block) == request.block_number

\* client.rs:605: the nonce and the block handed to create_signed_extra
ExtraNonce(request, account_info) == account_info.nonce

ExtraBlock(request, current_block) == current_block

\* client.rs:605-645, after the reads: r is the randomness of the signature
create_signed_extrinsic(call, signer, nonce, block_number, r) ==
    LET extra == create_signed_extra(nonce, block_number)
        payload == SigningPayload(call, extra)
        msg == signing_payload(payload)
        signature == sign(signer.secret, msg, r)
        extrinsic == Envelope(signer.public, signature, extra, call)
    IN [call |-> call, signer |-> signer.public, nonce |-> nonce,
        block_number |-> block_number, extra |-> extra, payload |-> payload,
        signed |-> msg, signature |-> signature, extrinsic |-> extrinsic,
        final |-> final_extrinsic(extrinsic)]

\* the randomness a signature may draw
Rand == {0, 1}

\* the signer's record when the extrinsic is built
SignerNominal == {RpcStr(Hex(EncodeAccount(WorkflowNonce, LE(9, 16))))}

\* client.rs:597
SeAccount ==
    /\ pc = "se_account"
    /\ \E resp \in SignerNominal \cup AccountDeviant :
        LET r == get_account_info(resp) IN
        /\ Affordable(resp, SignerNominal)
        /\ devs' = Charge(resp, SignerNominal)
        /\ rpcLog' = Append(rpcLog, StorageReq("Account"))
        /\ pc' = IF r.tag = "Ok" THEN "se_block_hash" ELSE "done"
        /\ result' = IF r.tag = "Ok" THEN result ELSE r
        /\ loc' = IF r.tag = "Ok" THEN [loc EXCEPT !.account_info = r.val] ELSE loc
    /\ UNCHANGED <<op, ret, si, cr, flVars, bldVars, rdVars, ar>>

\* client.rs:598, 570-574
SeBlockHash ==
    /\ pc = "se_block_hash"
    /\ \E resp \in HashAnswers :
        LET r == BlockHashResult(resp) IN
        /\ Affordable(resp, NominalChainAnswers)
        /\ devs' = Charge(resp, NominalChainAnswers)
        /\ rpcLog' = Append(rpcLog, Req("chain_getBlockHash", "best"))
        /\ pc' = IF r.tag = "Ok" THEN "se_header" ELSE "done"
        /\ result' = IF r.tag = "Ok" THEN result ELSE r
    /\ UNCHANGED <<op, ret, loc, si, cr, flVars, bldVars, rdVars, ar>>

\* client.rs:598, 576-587
SeHeader ==
    /\ pc = "se_header"
    /\ \E resp \in HeaderAnswers :
        LET r == HeaderResult(resp) IN
        /\ Affordable(resp, NominalChainAnswers)
        /\ devs' = Charge(resp, NominalChainAnswers)
        /\ rpcLog' = Append(rpcLog, Req("chain_getHeader", "best"))
        /\ pc' = IF r.tag = "Ok" THEN "se_genesis" ELSE "done"
        /\ result' = IF r.tag = "Ok" THEN result ELSE r
        /\ loc' = IF r.tag = "Ok" THEN [loc EXCEPT !.se_block = r.val] ELSE loc
    /\ UNCHANGED <<op, ret, si, cr, flVars, bldVars, rdVars, ar>>

\* client.rs:601, 668-676
SeGenesis ==
    /\ pc = "se_genesis"
    /\ \E resp \in HashStrAnswers :
        LET r == HashStrResult("chain_getBlockHash", resp) IN
        /\ Affordable(resp, HashStrNominal)
        /\ devs' = Charge(resp, HashStrNominal)
        /\ rpcLog' = Append(rpcLog, Req("chain_getBlockHash", "0"))
        /\ pc' = IF r.tag = "Ok" THEN "se_block_hash2" ELSE "done"
        /\ result' = IF r.tag = "Ok" THEN result ELSE r
    /\ UNCHANGED <<op, ret, loc, si, cr, flVars, bldVars, rdVars, ar>>

\* client.rs:602-645, 678-692: the last read, then the extrinsic is built
SeBlockHash2 ==
    /\ pc = "se_block_hash2"
    /\ \E resp \in HashStrAnswers, r \in Rand :
        LET h == HashStrResult("chain_getBlockHash", resp)
            d == loc.registration_data
            call == encode_burned_register_call(d.subnet_id, d.hotkey, d.burn_amount)
        IN /\ Affordable(resp, HashStrNominal)
           /\ devs' = Charge(resp, HashStrNominal)
           /\ rpcLog' = Append(rpcLog, Req("chain_getBlockHash", "best"))
           /\ pc' = IF h.tag = "Ok" THEN "se_submit" ELSE "done"
           /\ result' = IF h.tag = "Ok" THEN result ELSE h
           /\ loc' = IF h.tag = "Ok"
                     THEN [loc EXCEPT !.built = TRUE,
                                      !.xt = create_signed_extrinsic(call, loc.coldkey,
                                                 ExtraNonce(d, loc.account_info),
                                                 ExtraBlock(d, loc.se_block), r)]
                     ELSE loc
    /\ UNCHANGED <<op, ret, si, cr, flVars, bldVars, rdVars, ar>>

\* client.rs:998, 694-705; then register.rs:110 enters verify_registration.
\* The extrinsic was moved into the request and the locals of
\* create_signed_extrinsic are gone once it has returned
SeSubmit ==
    /\ pc = "se_submit"
    /\ \E resp \in HashStrAnswers :
        LET r == HashStrResult("author_submitExtrinsic", resp) IN
        /\ Affordable(resp, HashStrNominal)
        /\ devs' = Charge(resp, HashStrNominal)
        /\ rpcLog' = Append(rpcLog, Req("author_submitExtrinsic", "extrinsic"))
        /\ pc' = IF r.tag = "Ok" THEN "vr_sleep" ELSE "done"
        /\ result' = IF r.tag = "Ok" THEN result ELSE r
        /\ ret' = IF r.tag = "Ok" THEN "verify" ELSE ret
        /\ loc' = IF r.tag = "Ok"
                  THEN [loc EXCEPT !.account_info = Loc0.account_info,
                                   !.se_block = Loc0.se_block, !.xt = Loc0.xt]
                  ELSE loc
    /\ UNCHANGED <<op, si, cr, flVars, bldVars, rdVars, ar>>

\* register.rs:152-159: the sleep before each check
VrSleep ==
    /\ pc = "vr_sleep"
    /\ pc' = "cr_Uids"
    /\ loc' = [loc EXCEPT !.attempt = @ + 1]
    /\ cr' = CrFresh(loc.netuid, loc.hotkey)
    /\ UNCHANGED <<op, ret, rpcLog, result, devs, si, flVars, bldVars, rdVars, ar>>

(***************************************************************************)
(* The workflow specification.                                             *)
(***************************************************************************)
Ops == {"get_subnet_info", "check_registration", "register_to_subnet"}

IdleFlows == << >>

IdleBuilder == [pc |-> "idle"]

IdleReader == [pc |-> "idle"]

IdleRetry == [pc |-> "idle"]

Init ==
    /\ op \in Ops
    /\ pc = IF op = "get_subnet_info" THEN "si_SubnetworkN"
            ELSE IF op = "register_to_subnet" THEN "rs_load_keys"
            ELSE "cr_Uids"
    /\ ret = IF op = "register_to_subnet" THEN "register" ELSE "top"
    /\ loc \in IF op = "register_to_subnet"
               THEN {[Loc0 EXCEPT !.args = a] : a \in RegisterArgs}
               ELSE {Loc0}
    /\ rpcLog = << >>
    /\ result = Pending
    /\ devs = 0
    /\ si \in {[SiFresh(Loc0.netuid) EXCEPT !.show_info = b] :
                   b \in IF op = "get_subnet_info" THEN BOOLEAN ELSE {FALSE}}
    /\ cr = CrFresh(Loc0.netuid, Loc0.hotkey)
    /\ ar = IdleRetry
    /\ chain = IdleFlows
    /\ flows = IdleFlows
    /\ bld = IdleBuilder
    /\ rd = IdleReader

Next ==
    \/ SiSubnetworkN
    \/ SiTotalNetworks
    \/ SiField
    \/ SiBlockHash
    \/ SiHeader
    \/ DaStorage
    \/ DaAccountInfo
    \/ CrUids
    \/ CrNeurons
    \/ RsLoadKeys
    \/ RsBlockHash
    \/ RsHeader
    \/ PbBalance
    \/ SeAccount
    \/ SeBlockHash
    \/ SeHeader
    \/ SeGenesis
    \/ SeBlockHash2
    \/ SeSubmit
    \/ VrSleep

Spec == Init /\ [][Next]_vars

(***************************************************************************)
(* The builder specification: two concurrent calls of                      *)
(* create_signed_extrinsic on calls, nonces and block numbers drawn from   *)
(* bounded sets; each call yields at each of its five requests.            *)
(***************************************************************************)
\* the workflow variables while no workflow runs
IdleWorkflow ==
    /\ op = "idle"
    /\ pc = "idle"
    /\ ret = "idle"
    /\ loc = Loc0
    /\ rpcLog = << >>
    /\ result = Pending
    /\ devs = 0
    /\ si = SiFresh(Loc0.netuid)
    /\ cr = CrFresh(Loc0.netuid, Loc0.hotkey)
    /\ ar = IdleRetry

\* client.rs:983-990: the arguments of submit_burned_registration
BuildArgs ==
    [netuid : {1, 300}, hotkey : {AccountId(1)},
     burn_amount : {LE(2, 8), LE(1, 4) \o LE(1, 4)}]

\* create_signed_extrinsic takes any call bytes: calls whose length puts the
\* payload built at client.rs:608-610 at the threshold and one above it
\* (two bytes of length prefix for the call, one for the 18-byte extra)
FillerLens == {PayloadThreshold - 21, PayloadThreshold - 20}

Filler(n) == [i \in 1..n |-> i % 256]

NotBuilt == [built |-> FALSE]

\* the nonces handed to the builder: small ones and one that needs two bytes
BuildNonces == (0..MaxNonce) \cup {256 + MaxNonce}

\* the two concurrent calls of create_signed_extrinsic the builder follows
Calls == {1, 2}

\* what the node answers for the hash of the best block (client.rs:602)
BlockHashes == {LE(8, 32), LE(9, 32)}

\* client.rs:597-602: the locals of one call before its reads have returned
NoReads ==
    [account_info |-> NotBuilt, current_block |-> NotBuilt,
     genesis_hash |-> NotBuilt, block_hash |-> NotBuilt]

\* a variant that signs the genesis hash and the block hash after the payload
CreateSignedExtrinsicSigningHashes(call, signer, reads, r) ==
    LET x == create_signed_extrinsic(call, signer, reads.account_info.nonce,
                                     reads.current_block, r)
        msg == signing_payload(x.payload \o reads.genesis_hash \o reads.block_hash)
        signature == sign(signer.secret, msg, r)
        extrinsic == Envelope(signer.public, signature, x.extra, call)
    IN [x EXCEPT !.signed = msg, !.signature = signature, !.extrinsic = extrinsic,
                 !.final = final_extrinsic(extrinsic)]

\* client.rs:605-645: the synchronous part of create_signed_extrinsic on what
\* its reads returned; of the account record only the nonce is used, and
\* _genesis_hash and _block_hash (client.rs:601-602) are read and not used
CreateSignedExtrinsicFromReads(call, signer, reads, r) ==
    create_signed_extrinsic(call, signer, reads.account_info.nonce,
                            reads.current_block, r)

\* one call of create_signed_extrinsic: the request it waits for, what its
\* reads returned, the randomness of its signature and what it built
CallFresh(stage) ==
    [pc |-> stage, reads |-> NoReads, r |-> 0, x |-> NotBuilt]

\* nonce and block_number are the signer's nonce and the best block of the
\* chain the calls read
BldFresh(stage, args, call, nonce, block_number) ==
    [pc |-> stage, args |-> args, call |-> call, signer |-> KeyPair(2),
     nonce |-> nonce, block_number |-> block_number,
     calls |-> [k \in Calls |->
                   CallFresh(IF stage = "call" THEN "account" ELSE "idle")]]

InitBuild ==
    /\ IdleWorkflow
    /\ chain = IdleFlows
    /\ flows = IdleFlows
    /\ rd = IdleReader
    /\ \E nonce \in BuildNonces, block_number \in 0..MaxBlock :
        \/ \E args \in BuildArgs :
              bld = BldFresh("args", args, << >>, nonce, block_number)
        \/ \E n \in FillerLens :
              bld = BldFresh("call", [netuid |-> 0], Filler(n), nonce,
                             block_number)

\* client.rs:990-997: two callers with the same arguments encode the call and
\* enter create_signed_extrinsic, which sends its first request
BldEncodeCall ==
    /\ bld.pc = "args"
    /\ bld' = [bld EXCEPT !.pc = "call",
                          !.call = encode_burned_register_call(
                                       bld.args.netuid, bld.args.hotkey,
                                       bld.args.burn_amount),
                          !.calls = [k \in Calls |-> CallFresh("account")]]
    /\ UNCHANGED <<wfVars, flVars, rdVars>>

\* client.rs:597: the account read returns the chain's record of the signer
BldAccount(k) ==
    /\ bld.calls[k].pc = "account"
    /\ LET r == get_account_info(RpcStr(Hex(EncodeAccount(bld.nonce, LE(9, 16))))) IN
       bld' = [bld EXCEPT !.calls[k].pc = "block_hash",
                          !.calls[k].reads.account_info = r.val]
    /\ UNCHANGED <<wfVars, flVars, rdVars>>

\* client.rs:598, 570-574: the hash of the best block is handed on to the
\* header request
BldBlockHash(k) ==
    /\ bld.calls[k].pc = "block_hash"
    /\ bld' = [bld EXCEPT !.calls[k].pc = "header"]
    /\ UNCHANGED <<wfVars, flVars, rdVars>>

\* client.rs:598, 576-587
BldHeader(k) ==
    /\ bld.calls[k].pc = "header"
    /\ LET r == HeaderResult([kind |-> "header", number |-> bld.block_number]) IN
       bld' = [bld EXCEPT !.calls[k].pc = "genesis",
                          !.calls[k].reads.current_block = r.val]
    /\ UNCHANGED <<wfVars, flVars, rdVars>>

\* client.rs:601
BldGenesis(k) ==
    /\ bld.calls[k].pc = "genesis"
    /\ bld' = [bld EXCEPT !.calls[k].pc = "block_hash2",
                          !.calls[k].reads.genesis_hash = LE(7, 32)]
    /\ UNCHANGED <<wfVars, flVars, rdVars>>

\* client.rs:602-645: the last read returns and the extrinsic is built in the
\* same step; the signature draws its own randomness (client.rs:620)
BldExtrinsic(k) ==
    /\ bld.calls[k].pc = "block_hash2"
    /\ \E block_hash \in BlockHashes, r \in Rand :
        LET reads == [bld.calls[k].reads EXCEPT !.block_hash = block_hash] IN
        bld' = [bld EXCEPT !.calls[k].pc = "done",
                           !.calls[k].reads = reads,
                           !.calls[k].r = r,
                           !.calls[k].x = CreateSignedExtrinsicFromReads(
                                              bld.call, bld.signer, reads, r)]
    /\ UNCHANGED <<wfVars, flVars, rdVars>>

NextBuild ==
    \/ BldEncodeCall
    \/ \E k \in Calls : BldAccount(k)
    \/ \E k \in Calls : BldBlockHash(k)
    \/ \E k \in Calls : BldHeader(k)
    \/ \E k \in Calls : BldGenesis(k)
    \/ \E k \in Calls : BldExtrinsic(k)

SpecBuild == InitBuild /\ [][NextBuild]_vars

(***************************************************************************)
(* Claims about the workflow specification Spec.                           *)
(***************************************************************************)
Submitted == \E i \in 1..Len(rpcLog) : rpcLog[i][1] = "author_submitExtrinsic"

\* C1 as stated: when the SubnetworkN read of a get_subnet_info call returns
\* absent, the call fails with the subnet-not-found error and issues no
\* request at all after that first read.  The code reads TotalNetworks next
\* (client.rs:185), and what that read returns can replace the error.
C1_NoReadAfterAbsentCount ==
    si.sn = "absent" =>
        /\ si.reads = <<"SubnetworkN">>
        /\ si.out.tag # "Pending" => (si.out.tag = "Err" /\ si.out.err = "does not exist")

\* C2 as stated: when the Uids read returns a UID and the Neurons read
\* returns absent, check_registration fails with NeuronDataMissing and does
\* not return the non-error result "not registered".
C2_MissingNeuronDataIsError ==
    (cr.uids = "value" /\ cr.neurons = "absent" /\ cr.out.tag # "Pending") =>
        (cr.out.tag = "Err" /\ cr.out.err = "NeuronDataMissing")

\* C3 as stated: a channel failure on the read of a snapshot field after the
\* neuron count never ends in a returned snapshot (holding a default for that
\* field); the call returns an error.
C3_TransportFailurePropagates ==
    (\E i \in 1..Len(si.kinds) : si.kinds[i] = "transport") => si.out.tag # "Ok"

\* C4: a balance read that is lower than the burn amount ends the workflow
\* with the insufficient-balance error and no author_submitExtrinsic; an
\* author_submitExtrinsic is sent only after an account read whose balance was
\* found to be at least the burn amount.
C4_NoSubmitOnInsufficientBalance ==
    /\ (loc.checked /\ WordLt(loc.balance, loc.burn_cost)) =>
           /\ pc = "done"
           /\ result.tag = "Err"
           /\ result.err = "Insufficient balance"
           /\ ~Submitted
    /\ Submitted =>
           /\ loc.checked
           /\ ~WordLt(loc.balance, loc.burn_cost)
           /\ \E i, j \in 1..Len(rpcLog) :
                  /\ i < j
                  /\ rpcLog[i] = StorageReq("Account")
                  /\ rpcLog[j][1] = "author_submitExtrinsic"

C4_Witness ==
    /\ op = "register_to_subnet"
    /\ loc.checked
    /\ WordLt(loc.balance, loc.burn_cost)
    /\ pc = "done"
    /\ result.tag = "Err"
    /\ result.err = "Insufficient balance"

(***************************************************************************)
(* The flows specification: two submit_burned_registration flows of one    *)
(* signer against one chain.  The chain keeps the signer's nonce, raises   *)
(* it when it applies a transaction signed with the current nonce and      *)
(* rejects a transaction signed with a nonce already used.                 *)
(***************************************************************************)
\* blocks the chain produces during a run
MaxChainBlock == 2

Flows == {1, 2}

FlowFresh ==
    [pc |-> "idle", request |-> [block_number |-> 0],
     account_info |-> ZeroAccountInfo, se_block |-> 0, x |-> NotBuilt,
     nonce_read |-> 0, block_read |-> 0, read_at |-> 0,
     log |-> << >>, result |-> Pending]

ChainFresh(nonce) ==
    [nonce |-> nonce, block |-> 0, pool |-> {}, clock |-> 1,
     applied |-> [f \in Flows |-> 0], rejected |-> [f \in Flows |-> FALSE]]

InitFlows ==
    /\ IdleWorkflow
    /\ bld = IdleBuilder
    /\ rd = IdleReader
    /\ \E nonce \in 0..MaxNonce : chain = ChainFresh(nonce)
    /\ flows = [f \in Flows |-> FlowFresh]

\* the request the caller hands to submit_burned_registration: it carries the
\* block number read when the request was made (register.rs:139-145)
FlowRequest ==
    [subnet_id |-> Loc0.netuid, hotkey |-> Loc0.hotkey,
     coldkey |-> Loc0.coldkey.public, burn_amount |-> LE(2, 8),
     block_number |-> chain.block]

\* client.rs:983-988
FlStart(f) ==
    /\ flows[f].pc = "idle"
    /\ flows' = [flows EXCEPT ![f].pc = "account", ![f].request = FlowRequest]
    /\ UNCHANGED <<wfVars, chain, bldVars, rdVars>>

\* client.rs:597: the account read returns the chain's record of the signer
FlAccount(f) ==
    /\ flows[f].pc = "account"
    /\ LET r == get_account_info(RpcStr(Hex(EncodeAccount(chain.nonce, LE(9, 16))))) IN
       flows' = [flows EXCEPT ![f].pc = "block_hash",
                              ![f].account_info = r.val,
                              ![f].nonce_read = chain.nonce,
                              ![f].read_at = chain.clock,
                              ![f].log = Append(@, "account")]
    /\ chain' = [chain EXCEPT !.clock = @ + 1]
    /\ UNCHANGED <<wfVars, bldVars, rdVars>>

\* client.rs:598, 570-574
FlBlockHash(f) ==
    /\ flows[f].pc = "block_hash"
    /\ flows' = [flows EXCEPT ![f].pc = "header",
                              ![f].log = Append(@, "block_hash")]
    /\ UNCHANGED <<wfVars, chain, bldVars, rdVars>>

\* client.rs:598, 576-587
FlHeader(f) ==
    /\ flows[f].pc = "header"
    /\ LET r == HeaderResult([kind |-> "header", number |-> chain.block]) IN
       flows' = [flows EXCEPT ![f].pc = "genesis",
                              ![f].se_block = r.val,
                              ![f].block_read = chain.block,
                              ![f].log = Append(@, "header")]
    /\ UNCHANGED <<wfVars, chain, bldVars, rdVars>>

\* client.rs:601
FlGenesis(f) ==
    /\ flows[f].pc = "genesis"
    /\ flows' = [flows EXCEPT ![f].pc = "block_hash2",
                              ![f].log = Append(@, "genesis_hash")]
    /\ UNCHANGED <<wfVars, chain, bldVars, rdVars>>

\* client.rs:602-645: the last read, then the extrinsic is built
FlBlockHash2(f) ==
    /\ flows[f].pc = "block_hash2"
    /\ \E r \in Rand :
        LET d == flows[f].request
            call == encode_burned_register_call(d.subnet_id, d.hotkey, d.burn_amount)
        IN flows' = [flows EXCEPT
                        ![f].pc = "submit",
                        ![f].x = create_signed_extrinsic(call, Loc0.coldkey,
                                     ExtraNonce(d, flows[f].account_info),
                                     ExtraBlock(d, flows[f].se_block), r),
                        ![f].log = @ \o <<"block_hash", "extra", "sign", "assemble">>]
    /\ UNCHANGED <<wfVars, chain, bldVars, rdVars>>

\* client.rs:998, 694-705: the node takes the transaction into its pool
FlSubmit(f) ==
    /\ flows[f].pc = "submit"
    /\ flows' = [flows EXCEPT ![f].pc = "done",
                              ![f].result = HashStrResult("author_submitExtrinsic",
                                                RpcStr(Hex(LE(7, 32)))),
                              ![f].log = Append(@, "submit")]
    /\ chain' = [chain EXCEPT !.pool = @ \cup {[flow |-> f, nonce |-> flows[f].x.nonce]}]
    /\ UNCHANGED <<wfVars, bldVars, rdVars>>

\* the chain applies a pooled transaction signed with the signer's current
\* nonce and raises the nonce
ChainApply ==
    /\ \E tx \in chain.pool :
        /\ tx.nonce = chain.nonce
        /\ chain' = [chain EXCEPT !.pool = @ \ {tx},
                                  !.nonce = @ + 1,
                                  !.applied[tx.flow] = chain.clock,
                                  !.clock = @ + 1]
    /\ UNCHANGED <<wfVars, flows, bldVars, rdVars>>

\* the chain rejects a pooled transaction signed with a nonce already used
ChainReject ==
    /\ \E tx \in chain.pool :
        /\ tx.nonce < chain.nonce
        /\ chain' = [chain EXCEPT !.pool = @ \ {tx}, !.rejected[tx.flow] = TRUE]
    /\ UNCHANGED <<wfVars, flows, bldVars, rdVars>>

\* the chain produces a block
ChainBlock ==
    /\ chain.block < MaxChainBlock
    /\ chain' = [chain EXCEPT !.block = @ + 1]
    /\ UNCHANGED <<wfVars, flows, bldVars, rdVars>>

NextFlows ==
    \/ \E f \in Flows : FlStart(f)
    \/ \E f \in Flows : FlAccount(f)
    \/ \E f \in Flows : FlBlockHash(f)
    \/ \E f \in Flows : FlHeader(f)
    \/ \E f \in Flows : FlGenesis(f)
    \/ \E f \in Flows : FlBlockHash2(f)
    \/ \E f \in Flows : FlSubmit(f)
    \/ ChainApply
    \/ ChainReject
    \/ ChainBlock

SpecFlows == InitFlows /\ [][NextFlows]_vars

(***************************************************************************)
(* Claims about the flows specification SpecFlows.                         *)
(***************************************************************************)
\* the flow has built its extrinsic
FlowBuilt(f) == flows[f].pc \in {"submit", "done"}

\* event a is in the log and every occurrence of event b comes after it
Precedes(log, a, b) ==
    /\ \E i \in 1..Len(log) : log[i] = a
    /\ \A j \in 1..Len(log) : log[j] = b => \E i \in 1..(j - 1) : log[i] = a

\* the chain applied flow f's submission before flow g read the nonce
AppliedBeforeRead(f, g) ==
    /\ chain.applied[f] # 0
    /\ flows[g].read_at # 0
    /\ chain.applied[f] < flows[g].read_at

\* C5: in every submit_burned_registration call the nonce read and the
\* current-block read come before the signed extra is built, the payload is
\* signed and the extrinsic is assembled, and the nonce and block number put
\* into the signed extra are the values those reads of the same call
\* returned, not the block number carried in the request.
C5_ExtraFromReadsOfSameCall ==
    \A f \in Flows :
        LET w == flows[f] IN
        /\ \A a \in {"account", "header"}, b \in {"extra", "sign", "assemble"} :
               (\E j \in 1..Len(w.log) : w.log[j] = b) => Precedes(w.log, a, b)
        /\ FlowBuilt(f) =>
               /\ w.x.nonce = w.nonce_read
               /\ w.x.block_number = w.block_read
               /\ w.x.extra = create_signed_extra(w.nonce_read, w.block_read)
               /\ SubSeq(w.x.extra, 3, 10) = LE(w.nonce_read, 8)
               /\ w.x.extra[1] = EraByte(w.block_read)

C5_Witness ==
    \E f, g \in Flows :
        /\ f # g
        /\ FlowBuilt(f)
        /\ AppliedBeforeRead(g, f)
        /\ flows[f].request.block_number # flows[f].block_read
        /\ flows[f].x.nonce = flows[g].x.nonce + 1

\* C6: two flows of the same signer sign with the same nonce only if they
\* interleave: neither flow's submission was applied by the chain before the
\* other flow read the nonce.  Flows that are serialized, each submission
\* applied before the next nonce read, never share a nonce; nothing in the
\* flows themselves excludes the interleaving.
C6_SameNonceOnlyIfInterleaved ==
    \A f, g \in Flows :
        (f # g /\ FlowBuilt(f) /\ FlowBuilt(g)
           /\ flows[f].x.signer = flows[g].x.signer
           /\ flows[f].x.nonce = flows[g].x.nonce)
        => (~AppliedBeforeRead(f, g) /\ ~AppliedBeforeRead(g, f))

C6_Witness ==
    /\ flows[1].pc = "done"
    /\ flows[2].pc = "done"
    /\ flows[1].x.nonce = flows[2].x.nonce
    /\ chain.applied[1] # 0
    /\ chain.rejected[2]

(***************************************************************************)
(* Claims about the builder specification SpecBuild.                       *)
(***************************************************************************)
Built == bld.calls[1].pc = "done"

\* C7 as stated: the signing payload is the call bytes followed by the
\* signed-extra bytes, and what is signed is that payload itself when it has
\* 256 bytes or fewer and its 32-byte hash when it has more.
C7_PayloadIsCallThenExtra ==
    Built =>
        LET plain == bld.calls[1].x.call \o bld.calls[1].x.extra IN
        /\ bld.calls[1].x.payload = plain
        /\ bld.calls[1].x.signed = IF Len(plain) > PayloadThreshold
                          THEN blake2_256(plain) ELSE plain

\* C8 as stated: the envelope is the version byte 0x84, the signer's 32-byte
\* account id, the signature, the signed-extra bytes and the call bytes, in
\* that order, with no other byte between or inside the parts.
C8_EnvelopeIsPlainConcatenation ==
    Built =>
        /\ bld.calls[1].x.extra = create_signed_extra(bld.nonce, bld.block_number)
        /\ bld.calls[1].x.call = bld.call
        /\ bld.calls[1].x.extrinsic =
               <<VersionByte>> \o bld.signer.public \o bld.calls[1].x.signature
                   \o bld.calls[1].x.extra \o bld.calls[1].x.call

\* C9: the final bytes are a length indicator followed by the unchanged
\* envelope; the indicator is the 32-bit envelope length with its top bit
\* set, so that clearing the bit gives the number of bytes that follow.
C9_LengthIndicator ==
    Built =>
        LET env == bld.calls[1].x.extrinsic
            fin == bld.calls[1].x.final
        IN /\ Len(fin) = 4 + Len(env)
           /\ SubSeq(fin, 5, Len(fin)) = env
           /\ \A i \in 1..4 : fin[i] \in 0..255
           /\ fin[4] >= 128
           /\ FromLE(<<fin[1], fin[2], fin[3], fin[4] - 128>>) = Len(fin) - 4

C9_Witness ==
    /\ Built
    /\ Len(bld.calls[1].x.extrinsic) > 256
    /\ bld.calls[1].x.final[2] # 0
    /\ bld.calls[1].x.final[4] = 128

\* C10 as stated: the signed extra starts with an era byte made of two
\* nibbles, the period class (trailing zeros of 64 less one, at least 1) and
\* the scaled phase ((block_number mod 64) scaled to 0..15), both recoverable
\* from the byte, so that blocks with different scaled phases get different
\* era bytes; the second byte is zero.
ScaledPhase(block_number) == Phase(block_number) \div (era_period \div 16)

C10_EraByteHoldsBothNibbles ==
    Built =>
        LET era == bld.calls[1].x.extra[1]
            class == Max(trailing_zeros(era_period) - 1, 1)
            scaled == ScaledPhase(bld.block_number)
        IN /\ \/ (era % 16 = class /\ era \div 16 = scaled)
              \/ (era \div 16 = class /\ era % 16 = scaled)
           /\ \A b \in 0..MaxBlock :
                  ScaledPhase(b) # scaled => EraByte(b) # era
           /\ bld.calls[1].x.extra[2] = 0

\* C11: the signed extra is the two era bytes, then the nonce as 8
\* little-endian bytes, then a zero tip as 8 little-endian bytes: 18 bytes in
\* all, for every nonce and block number.
C11_ExtraLayout ==
    Built =>
        LET extra == bld.calls[1].x.extra IN
        /\ Len(extra) = 18
        /\ SubSeq(extra, 1, 2) = <<EraByte(bld.block_number), 0>>
        /\ \A i \in 3..18 : extra[i] \in 0..255
        /\ FromLE(SubSeq(extra, 3, 6)) = bld.nonce
        /\ \A i \in 7..10 : extra[i] = 0
        /\ \A i \in 11..18 : extra[i] = 0

C11_Witness ==
    /\ Built
    /\ bld.nonce > 255
    /\ bld.calls[1].x.extra[4] # 0
    /\ Phase(bld.block_number) # 0

\* the builder holds a call encoded from registration arguments
CallEncoded == bld.pc = "call" /\ bld.args.netuid # 0

\* C12: encode_burned_register_call returns 44 bytes: module index 8, call
\* index 1, the netuid as 2 little-endian bytes, the 32 raw hotkey bytes and
\* the burn amount as 8 little-endian bytes, in that order; the two indices
\* equal SUBTENSOR_MODULE_INDEX and BURNED_REGISTER_CALL_INDEX.
C12_CallLayout ==
    CallEncoded =>
        /\ Len(bld.call) = 44
        /\ bld.call[1] = SUBTENSOR_MODULE_INDEX
        /\ bld.call[2] = BURNED_REGISTER_CALL_INDEX
        /\ bld.call[3] \in 0..255 /\ bld.call[4] \in 0..255
        /\ bld.call[3] + 256 * bld.call[4] = bld.args.netuid
        /\ Len(bld.args.hotkey) = 32
        /\ \A i \in 1..32 : bld.call[4 + i] = bld.args.hotkey[i]
        /\ Len(bld.args.burn_amount) = 8
        /\ \A i \in 1..8 : bld.call[36 + i] = bld.args.burn_amount[i]

C12_Witness ==
    /\ CallEncoded
    /\ bld.call[3] # 0
    /\ bld.call[4] # 0
    /\ bld.call[41] # 0

(***************************************************************************)
(* The reader specification: one read operation applied to one answer of   *)
(* the node, drawn from stored values of every length up to MaxRawLen and  *)
(* from answers that are no well-formed value.                             *)
(***************************************************************************)
\* the longest stored value drawn
MaxRawLen == 81

Seeds == {1, 7}

\* a stored value of len bytes
Raw(len, seed) == [i \in 1..len |-> (seed * i + 3) % 256]

\* 56 bytes, all zero but 10_000_000_000 little-endian at offset 16
Example56 == LE(0, 16) \o <<0, 228, 11, 84, 2>> \o LE(0, 11) \o LE(0, 24)

\* the node may render hex digits in upper case
UpperHex(bs) ==
    <<"0", "x">> \o
    [i \in 1..(2 * Len(bs)) |->
        IF i % 2 = 1 THEN UpperHexDigits[(bs[(i + 1) \div 2] \div 16) + 1]
        ELSE UpperHexDigits[(bs[i \div 2] % 16) + 1]]

StoredBytes ==
    {Raw(len, seed) : len \in 0..MaxRawLen, seed \in Seeds}
    \cup {Example56}
    \cup {EncodeAccount(WorkflowNonce, f) : f \in FreeChoices}

\* an answer and, when it renders a stored value, that value
ReadAnswers ==
    {[resp |-> RpcStr(Hex(b)), raw |-> b] : b \in StoredBytes}
    \cup {[resp |-> RpcStr(UpperHex(Raw(3, 11))), raw |-> Raw(3, 11)]}
    \cup {[resp |-> r, raw |-> << >>] :
             r \in {RpcErr, RpcNull, RpcStr(<<"0", "x", "z", "z">>),
                    RpcStr(<<"0", "x", "1">>), RpcStr(<<"0">>), RpcStr(<< >>),
                    RpcStr(<<"0", "é">>), RpcStr(<<"é">>), RpcStr(<<"€">>),
                    RpcStr(<<"x", "é", "0", "5">>)}}

ReadOps == {"get_bittensor_storage", "get_account_info", "get_account_balance"}

InitRead ==
    /\ IdleWorkflow
    /\ chain = IdleFlows
    /\ flows = IdleFlows
    /\ bld = IdleBuilder
    /\ \E fn \in ReadOps, a \in ReadAnswers :
          rd = [pc |-> "asked", fn |-> fn, resp |-> a.resp, raw |-> a.raw,
                info |-> Pending, out |-> Pending]

\* client.rs:304-326
RdStorage ==
    /\ rd.pc = "asked"
    /\ rd.fn = "get_bittensor_storage"
    /\ rd' = [rd EXCEPT !.pc = "returned",
                        !.out = get_bittensor_storage("Item", rd.resp)]
    /\ UNCHANGED <<wfVars, flVars, bldVars>>

\* client.rs:740-894
RdAccountInfo ==
    /\ rd.pc = "asked"
    /\ rd.fn = "get_account_info"
    /\ rd' = [rd EXCEPT !.pc = "returned",
                        !.info = get_account_info(rd.resp),
                        !.out = get_account_info(rd.resp)]
    /\ UNCHANGED <<wfVars, flVars, bldVars>>

\* client.rs:735-738: info is the local account_info
RdAccountBalance ==
    /\ rd.pc = "asked"
    /\ rd.fn = "get_account_balance"
    /\ rd' = [rd EXCEPT !.pc = "returned",
                        !.info = get_account_info(rd.resp),
                        !.out = get_account_balance(rd.resp)]
    /\ UNCHANGED <<wfVars, flVars, bldVars>>

NextRead ==
    \/ RdStorage
    \/ RdAccountInfo
    \/ RdAccountBalance

SpecRead == InitRead /\ [][NextRead]_vars

(***************************************************************************)
(* Claims about the reader specification SpecRead.                         *)
(***************************************************************************)
Returned(fn) == rd.pc = "returned" /\ rd.fn = fn

\* the answer renders the stored value rd.raw
RdValue == rd.resp.kind = "str" /\ rd.resp.s \in {Hex(rd.raw), UpperHex(rd.raw)}

\* a little-endian u32 read from four bytes at 0-based offset k
U32At(bytes, k) ==
    bytes[k + 1] + 256 * bytes[k + 2] + 65536 * bytes[k + 3] + 16777216 * bytes[k + 4]

Zero128 == [i \in 1..16 |-> 0]

AllZero(info) ==
    /\ info.nonce = 0 /\ info.consumers = 0
    /\ info.providers = 0 /\ info.sufficients = 0
    /\ info.free = Zero128 /\ info.reserved = Zero128
    /\ info.frozen = Zero128 /\ info.flags = Zero128

\* C13: get_account_info returns the canonical decode when it succeeds (80
\* bytes or more), the fixed-offset fallback only when the canonical decode
\* fails and at least 56 bytes are there, and a record with every field zero,
\* without error, when fewer than 56 bytes are there or the account is absent.
C13_DecodePathChoice ==
    Returned("get_account_info") =>
        /\ rd.resp = RpcNull => (rd.out.tag = "Ok" /\ AllZero(rd.out.val))
        /\ RdValue =>
               LET n == Len(rd.raw)
                   v == rd.out.val
               IN /\ rd.out.tag = "Ok"
                  /\ n >= 80 =>
                         /\ v.nonce = U32At(rd.raw, 0)
                         /\ v.free = SubSeq(rd.raw, 17, 32)
                         /\ v.reserved = SubSeq(rd.raw, 33, 48)
                         /\ v.frozen = SubSeq(rd.raw, 49, 64)
                         /\ v.flags = SubSeq(rd.raw, 65, 80)
                  /\ (n >= 56 /\ n < 80) =>
                         /\ v.nonce = U32At(rd.raw, 0)
                         /\ v.free = SubSeq(rd.raw, 17, 32)
                         /\ SubSeq(v.frozen, 9, 16) = SubSeq(Zero128, 1, 8)
                         /\ v.flags = Zero128
                  /\ n < 56 => AllZero(v)

C13_Witness ==
    /\ Returned("get_account_info")
    /\ RdValue
    /\ Len(rd.raw) = 79
    /\ rd.out.val.flags = Zero128
    /\ rd.out.val.free # Zero128

\* C14: the fallback decode reads bytes 0-15 as four little-endian u32
\* (nonce, consumers, providers, sufficients), bytes 16-31 as the u128 free
\* balance, bytes 32-47 as the u128 reserved balance, bytes 48-55 as a u64
\* frozen balance widened to 128 bits, and sets flags to zero; the 56-byte
\* buffer holding 10_000_000_000 at offset 16 decodes to that free balance
\* with reserved and frozen zero.
C14_FallbackLayout ==
    (Returned("get_account_info") /\ RdValue
       /\ Len(rd.raw) >= 56 /\ Len(rd.raw) < 80) =>
        LET v == rd.out.val IN
        /\ rd.out.tag = "Ok"
        /\ v.nonce = U32At(rd.raw, 0)
        /\ v.consumers = U32At(rd.raw, 4)
        /\ v.providers = U32At(rd.raw, 8)
        /\ v.sufficients = U32At(rd.raw, 12)
        /\ \A i \in 1..16 : v.free[i] = rd.raw[16 + i]
        /\ \A i \in 1..16 : v.reserved[i] = rd.raw[32 + i]
        /\ \A i \in 1..8 : v.frozen[i] = rd.raw[48 + i]
        /\ \A i \in 9..16 : v.frozen[i] = 0
        /\ v.flags = Zero128
        /\ rd.raw = Example56 =>
               /\ v.free = <<0, 228, 11, 84, 2, 0, 0, 0, 0, 0, 0, 0, 0, 0, 0, 0>>
               /\ v.reserved = Zero128
               /\ v.frozen = Zero128

C14_Witness ==
    /\ Returned("get_account_info")
    /\ rd.raw = Example56
    /\ rd.out.tag = "Ok"
    /\ rd.out.val.free[2] = 228
    /\ rd.out.val.free[5] = 2

\* C15 as stated: the number get_account_balance returns is the free balance
\* of the decoded record, for every value of the 128-bit field.
C15_BalanceIsFree ==
    (Returned("get_account_balance") /\ rd.info.tag = "Ok") =>
        /\ rd.out.tag = "Ok"
        /\ Len(rd.out.val) = 8
        /\ rd.out.val \o SubSeq(Zero128, 1, 8) = rd.info.val.free

\* C19 as stated: a storage read has these outcomes and no other: no value
\* gives absent without error, a channel failure gives an error, a present
\* answer whose payload does not decode gives an error, and a present,
\* decodable answer gives exactly the decoded bytes.
C19_StorageReadOutcomes ==
    Returned("get_bittensor_storage") =>
        /\ rd.resp.kind = "null" => rd.out = Ok(None)
        /\ rd.resp.kind = "err" => rd.out.tag = "Err"
        /\ rd.resp.kind = "str" =>
               IF RdValue THEN rd.out = Ok(Some(rd.raw)) ELSE rd.out.tag = "Err"

(***************************************************************************)
(* Claims about the read operations within Spec.                           *)
(***************************************************************************)
\* get_subnet_info has come to its end
SiEnded == si.out.tag # "Pending"

\* C16 as stated: a snapshot is returned only when the SubnetworkN read gave
\* a value that decodes to a non-zero count; when the value is absent or
\* zero the call returns an error; a returned snapshot carries the count
\* that was read.
C16_SnapshotOnlyForNonZeroCount ==
    /\ si.out.tag = "Ok" =>
           /\ si.sn = "value"
           /\ si.subnetwork_n = 3
           /\ si.out.val.subnetwork_n = 3
    /\ (si.sn = "absent" /\ si.tn # "unread") => si.out.tag = "Err"
    /\ (si.sn = "value" /\ si.subnetwork_n = 0) => si.out.tag = "Err"

\* the value the typed getter yields for an answer of the given class
FieldOutcome(kind, w) == IF kind = "value" THEN LE(FieldValue, w) ELSE LE(0, w)

\* C17 as stated: once the count is present and non-zero, a field whose read
\* is absent or does not decode takes its default, every other field keeps
\* the value read, and the snapshot is returned when the current-block read
\* succeeds; no field read ends the call.
C17_FieldFailureAbsorbed ==
    /\ \A i \in 1..Len(si.kinds) :
           si.kinds[i] \in {"absent", "no prefix", "hex", "short", "value"} =>
               /\ Len(si.vals) >= i
               /\ si.vals[i] = FieldOutcome(si.kinds[i], Fields[i].w)
    /\ (SiEnded /\ Len(si.kinds) > 0) =>
           /\ Len(si.vals) = NFields
           /\ si.out.tag = "Ok" => si.out.val = SubnetInfo(si)

\* C18: when the Uids read returns absent, check_registration returns "not
\* registered" without error and without issuing the Neurons read.
C18_AbsentUidIsNotRegistered ==
    cr.uids = "absent" =>
        /\ cr.out = Ok(None)
        /\ cr.neurons = "unread"
        /\ cr.reads = <<"Uids">>

C18_Witness ==
    /\ op = "check_registration"
    /\ pc = "done"
    /\ cr.uids = "absent"
    /\ result = Ok(None)
    /\ rpcLog = <<StorageReq("Uids")>>

\* C20 as stated: no operation ends in an abort, whatever the node answers.
C20_NoAbort ==
    /\ result.tag # "Panic"
    /\ si.out.tag # "Panic"
    /\ cr.out.tag # "Panic"

(***************************************************************************)
(* Storage addresses (client.rs:279-301, 368-391, 897-917).  The hashes    *)
(* are external primitives: twox_128 is tabulated for the names the client *)
(* hashes, blake2_128 is kept abstract as a 16-byte digest.                *)
(***************************************************************************)
\* sp_core::twox_128 of the pallet and item names the client hashes
\* (client.rs:173-229, 284-285, 376-377, 467, 480, 901-904)
Twox128Of ==
    [System |->
       <<38, 170, 57, 78, 234, 86, 48, 224, 124, 72, 174, 12, 149, 88, 206, 247>>,
     Account |->
       <<185, 157, 136, 14, 198, 129, 121, 156, 12, 243, 14, 136, 134, 55, 29, 169>>,
     SubtensorModule |->
       <<101, 143, 170, 56, 80, 112, 224, 116, 200, 91, 246, 181, 104, 207, 5, 85>>,
     SubnetworkN |->
       <<161, 4, 142, 157, 36, 65, 113, 133, 45, 254, 141, 179, 20, 220, 104, 202>>,
     TotalNetworks |->
       <<95, 59, 183, 188, 208, 160, 118, 164, 138, 191, 140, 37, 109, 34, 23, 33>>,
     Uids |->
       <<170, 177, 180, 231, 142, 30, 168, 48, 84, 98, 238, 83, 179, 104, 109, 200>>,
     Neurons |->
       <<172, 219, 98, 161, 85, 1, 204, 106, 7, 16, 229, 50, 79, 16, 10, 158>>,
     Difficulty |->
       <<125, 21, 221, 102, 251, 240, 203, 218, 29, 58, 101, 27, 94, 96, 109, 242>>,
     Tempo |->
       <<118, 65, 56, 75, 179, 57, 243, 117, 138, 205, 223, 215, 5, 61, 51, 23>>,
     ImmunityPeriod |->
       <<182, 82, 44, 254, 3, 67, 62, 158, 16, 26, 37, 142, 226, 245, 128, 171>>,
     MinAllowedWeights |->
       <<92, 209, 201, 126, 223, 146, 190, 41, 111, 184, 174, 115, 238, 134, 17, 38>>,
     MaxWeightsLimit |->
       <<145, 157, 178, 254, 24, 32, 62, 186, 137, 140, 238, 71, 30, 241, 146, 64>>,
     MaxAllowedValidators |->
       <<116, 27, 136, 61, 37, 25, 238, 217, 24, 87, 153, 59, 253, 77, 240, 186>>,
     MaxAllowedUids |->
       <<250, 190, 107, 19, 29, 159, 166, 230, 214, 202, 203, 231, 88, 108, 59, 138>>,
     Burn |->
       <<1, 190, 23, 85, 208, 132, 24, 128, 41, 70, 188, 165, 27, 104, 99, 37>>,
     SubnetOwner |->
       <<54, 227, 232, 33, 82, 200, 117, 130, 103, 57, 95, 229, 36, 251, 189, 22>>,
     NetworkModality |->
       <<109, 207, 109, 41, 120, 2, 171, 132, 161, 198, 140, 185, 69, 51, 153, 146>>,
     EmissionValues |->
       <<78, 253, 44, 30, 151, 83, 3, 118, 150, 41, 110, 43, 250, 68, 96, 149>>,
     Rho |->
       <<143, 238, 100, 8, 153, 139, 142, 141, 191, 42, 96, 18, 76, 44, 115, 7>>,
     Kappa |->
       <<6, 210, 45, 199, 129, 244, 78, 80, 110, 81, 112, 127, 171, 94, 234, 77>>,
     ScalingLawPower |->
       <<17, 96, 134, 14, 168, 195, 54, 196, 212, 111, 213, 83, 104, 48, 182, 52>>,
     BlocksSinceLastStep |->
       <<99, 249, 52, 228, 142, 89, 191, 148, 19, 222, 66, 118, 5, 250, 160, 36>>]

twox_128(name) == Twox128Of[name]

blake2_128(bs) == LET d == Digest(bs) IN [i \in 1..16 |-> (d + 11 * i) % 256]

\* the keys' little-endian bytes, in argument order
RECURSIVE KeyBytes(_)
KeyBytes(keys) == IF keys = << >> THEN << >> ELSE LE(Head(keys), 2) \o KeyBytes(Tail(keys))

\* a variant that appends the 128-bit hash of the keys instead of the keys
StorageKeyWithHashedKeys(storage_name, keys) ==
    Hex(twox_128("SubtensorModule") \o twox_128(storage_name)
        \o (IF keys = << >> THEN << >> ELSE blake2_128(KeyBytes(keys))))

\* client.rs:279-301
encode_bittensor_storage_key(storage_name, keys) ==
    Hex(twox_128("SubtensorModule") \o twox_128(storage_name) \o KeyBytes(keys))

\* a variant that hashes the account and does not append it
SystemAccountKeyHashOnly(account) ==
    Hex(twox_128("System") \o twox_128("Account") \o blake2_128(account) \o blake2_128(account))

\* client.rs:897-917
encode_system_account_storage_key(account) ==
    Hex(twox_128("System") \o twox_128("Account") \o blake2_128(account) \o account)

\* a variant that hashes the account alone
AccountKeyWithoutNetuid(storage_name, netuid, account) ==
    Hex(twox_128("SubtensorModule") \o twox_128(storage_name) \o blake2_256(account))

\* client.rs:375-391: the address get_bittensor_storage_with_account asks for
account_storage_key(storage_name, netuid, account) ==
    Hex(twox_128("SubtensorModule") \o twox_128(storage_name)
        \o blake2_256(LE(netuid, 2) \o account))

(***************************************************************************)
(* The key specification: one derivation (a storage address, or an account *)
(* id from a string) applied to arguments drawn from sample sets.  The     *)
(* account-keyed derivations are applied to two arguments, so that their   *)
(* addresses can be compared.                                              *)
(***************************************************************************)
\* number of sample accounts
MaxAccounts == 3

KeyAccounts == {AccountId(k) : k \in 1..MaxAccounts}

KeyNetuids == {0, 1, 300}

KeyLists == {<< >>, <<1>>, <<300>>, <<1, 9>>, <<9, 1>>, <<1, 2, 3>>}

SubtensorItems ==
    {"SubnetworkN", "TotalNetworks", "Neurons"} \cup {Fields[i].name : i \in 1..NFields}

Repeat(c, n) == [i \in 1..n |-> c]

\* the empty string, dev keys, a path, addresses of 48 characters, strings of
\* 47 and 49 characters, 48 characters with one that is not alphanumeric,
\* and a phrase
SampleStrings ==
    {<< >>, <<"/", "/", "A">>, <<"/", "/">>, <<"/">>, <<"k", ".", "j">>,
     Repeat("5", Ss58Len), Repeat("5", Ss58Len - 1), Repeat("5", Ss58Len + 1),
     Repeat("5", Ss58Len - 1) \o <<"-">>, <<"/", "/">> \o Repeat("5", Ss58Len - 2),
     <<"a", " ", "b">>}

\* what Sr25519Pair::from_string and from_ss58check may return
PairResults == {Ok(KeyPair(1)), Err("key", "")}

AddressResults == {Ok(AccountId(2)), Err("ss58", "")}

KeyOps ==
    {"encode_bittensor_storage_key", "encode_system_account_storage_key",
     "account_storage_key", "account_id_from_string"}

\* Path::new("").exists() is false
KeyArgs(fn) ==
    IF fn = "encode_bittensor_storage_key"
    THEN [storage_name : SubtensorItems, keys : KeyLists]
    ELSE IF fn = "encode_system_account_storage_key"
    THEN [account : KeyAccounts, account2 : KeyAccounts]
    ELSE IF fn = "account_storage_key"
    THEN [netuid : KeyNetuids, account : KeyAccounts,
          netuid2 : KeyNetuids, account2 : KeyAccounts]
    ELSE {a \in [account : SampleStrings, exists : BOOLEAN, file : FileKinds,
                 pair : PairResults, address : AddressResults] :
             /\ a.account = << >> => ~a.exists
             /\ ~a.exists => a.file = "raw"}

InitKey ==
    /\ IdleWorkflow
    /\ chain = IdleFlows
    /\ flows = IdleFlows
    /\ bld = IdleBuilder
    /\ \E fn \in KeyOps : \E a \in KeyArgs(fn) :
           rd = [pc |-> "asked", fn |-> fn, arg |-> a, out |-> Pending]

KyStorageKey ==
    /\ rd.pc = "asked" /\ rd.fn = "encode_bittensor_storage_key"
    /\ rd' = [rd EXCEPT !.pc = "returned",
                        !.out = encode_bittensor_storage_key(rd.arg.storage_name,
                                                             rd.arg.keys)]
    /\ UNCHANGED <<wfVars, flVars, bldVars>>

KySystemAccountKey ==
    /\ rd.pc = "asked" /\ rd.fn = "encode_system_account_storage_key"
    /\ rd' = [rd EXCEPT !.pc = "returned",
                        !.out = <<encode_system_account_storage_key(rd.arg.account),
                                  encode_system_account_storage_key(rd.arg.account2)>>]
    /\ UNCHANGED <<wfVars, flVars, bldVars>>

KyAccountStorageKey ==
    /\ rd.pc = "asked" /\ rd.fn = "account_storage_key"
    /\ rd' = [rd EXCEPT !.pc = "returned",
                        !.out = <<account_storage_key("Uids", rd.arg.netuid,
                                                      rd.arg.account),
                                  account_storage_key("Uids", rd.arg.netuid2,
                                                      rd.arg.account2)>>]
    /\ UNCHANGED <<wfVars, flVars, bldVars>>

KyAccountId ==
    /\ rd.pc = "asked" /\ rd.fn = "account_id_from_string"
    /\ rd' = [rd EXCEPT !.pc = "returned",
                        !.out = account_id_from_string(rd.arg.account, rd.arg.exists,
                                                       rd.arg.file, rd.arg.pair,
                                                       rd.arg.address)]
    /\ UNCHANGED <<wfVars, flVars, bldVars>>

NextKey ==
    \/ KyStorageKey
    \/ KySystemAccountKey
    \/ KyAccountStorageKey
    \/ KyAccountId

SpecKey == InitKey /\ [][NextKey]_vars

(***************************************************************************)
(* Claims about the key specification SpecKey.                             *)
(***************************************************************************)
\* the bytes of an address string
AddressBytes(cs) == HexDecode(SubSeq(cs, 3, Len(cs)))

\* C21: the address of a SubtensorModule item is the 32-byte prefix (hash of
\* the pallet name, then hash of the item name) and nothing else when no
\* keys are given, and otherwise the prefix followed by each key's two
\* little-endian bytes in argument order, unhashed: 32 + 2 * (number of
\* keys) bytes.
C21_StorageAddressLayout ==
    Returned("encode_bittensor_storage_key") =>
        LET b == AddressBytes(rd.out)
            keys == rd.arg.keys
        IN /\ rd.out[1] = "0" /\ rd.out[2] = "x"
           /\ Len(b) = 32 + 2 * Len(keys)
           /\ SubSeq(b, 1, 16) = twox_128("SubtensorModule")
           /\ SubSeq(b, 17, 32) = twox_128(rd.arg.storage_name)
           /\ \A j \in 1..Len(keys) :
                  /\ b[32 + 2 * j - 1] = keys[j] % 256
                  /\ b[32 + 2 * j] = keys[j] \div 256

C21_Witness ==
    /\ Returned("encode_bittensor_storage_key")
    /\ rd.arg.keys = <<1, 9>>
    /\ Len(AddressBytes(rd.out)) = 36
    /\ AddressBytes(rd.out)[35] = 9

\* C22: the System::Account address is the 32-byte System/Account prefix,
\* then the 128-bit hash of the account bytes, then the 32 raw account
\* bytes: it is 80 bytes long, its last 32 bytes are the account id, and
\* distinct accounts have distinct addresses.
C22_SystemAccountAddress ==
    Returned("encode_system_account_storage_key") =>
        LET b == AddressBytes(rd.out[1]) IN
        /\ Len(b) = 80
        /\ SubSeq(b, 1, 16) = twox_128("System")
        /\ SubSeq(b, 17, 32) = twox_128("Account")
        /\ SubSeq(b, 33, 48) = blake2_128(rd.arg.account)
        /\ SubSeq(b, 49, 80) = rd.arg.account
        /\ rd.arg.account # rd.arg.account2 => rd.out[1] # rd.out[2]

C22_Witness ==
    /\ Returned("encode_system_account_storage_key")
    /\ rd.arg.account = AccountId(1)
    /\ rd.arg.account2 = AccountId(2)
    /\ rd.out[1] # rd.out[2]
    /\ Len(rd.out[1]) = 162

\* C23: over the sample pairs, two (netuid, account) pairs that differ in
\* either component derive different Uids addresses, and identical pairs
\* derive identical addresses; each address is the prefix followed by a
\* 256-bit hash.
C23_DoubleMapAddressesDistinct ==
    Returned("account_storage_key") =>
        /\ Len(AddressBytes(rd.out[1])) = 64
        /\ SubSeq(AddressBytes(rd.out[1]), 1, 32)
              = twox_128("SubtensorModule") \o twox_128("Uids")
        /\ (rd.out[1] = rd.out[2])
              <=> (rd.arg.netuid = rd.arg.netuid2 /\ rd.arg.account = rd.arg.account2)

C23_Witness ==
    /\ Returned("account_storage_key")
    /\ rd.arg.netuid # rd.arg.netuid2
    /\ rd.arg.account = rd.arg.account2
    /\ rd.out[1] # rd.out[2]

\* C25: account_id_from_string returns an error and no account id for the
\* empty string; a non-empty string is classified in this order: a string
\* starting with "//" is a dev key, else an existing path is loaded as a key
\* file, else 48 alphanumeric characters are parsed as an address, else the
\* string is a seed or phrase.
C25_AccountStringClassification ==
    Returned("account_id_from_string") =>
        LET a == rd.arg.account
            slashes == Len(a) >= 2 /\ SubSeq(a, 1, 2) = <<"/", "/">>
            address == Len(a) = 48 /\ \A i \in 1..Len(a) : a[i] \in AsciiAlphanumeric
        IN /\ a = << >> => (rd.out.via = "empty" /\ rd.out.res.tag = "Err")
           /\ a # << >> =>
                  /\ rd.out.via = (IF slashes THEN "dev"
                                   ELSE IF rd.arg.exists THEN "file"
                                   ELSE IF address THEN "ss58"
                                   ELSE "seed")
                  /\ rd.out.via \in {"dev", "seed"} =>
                         rd.out.res = (IF rd.arg.pair.tag = "Ok"
                                       THEN Ok(rd.arg.pair.val.public) ELSE rd.arg.pair)
                  /\ rd.out.via = "ss58" =>
                         /\ rd.out.res.tag = rd.arg.address.tag
                         /\ rd.out.res.tag = "Ok" => rd.out.res = rd.arg.address
                  /\ (rd.out.via = "file" /\ rd.out.res.tag = "Ok") =>
                         /\ rd.arg.file \in {"json_seed", "json_phrase", "raw"}
                         /\ rd.arg.pair.tag = "Ok"
                         /\ rd.out.res = Ok(rd.arg.pair.val.public)

C25_Witness ==
    /\ Returned("account_id_from_string")
    /\ Len(rd.arg.account) = 48
    /\ rd.arg.account[1] = "5"
    /\ rd.arg.exists
    /\ rd.out.via = "file"

(***************************************************************************)
(* Claims about building twice and about the payload length (SpecBuild).   *)
(***************************************************************************)
Rebuilt == \A k \in Calls : bld.calls[k].pc = "done"

\* the output of a build with its signature bytes taken out: the signature
\* follows the length indicator, the version byte and the signer
SignatureStart(x) == Len(x.final) - Len(x.extrinsic) + 1 + Len(x.signer)

WithoutSignature(x) ==
    SubSeq(x.final, 1, SignatureStart(x))
    \o SubSeq(x.final, SignatureStart(x) + Len(x.signature) + 1, Len(x.final))

\* C24: two builds for the same call and signer whose reads return the same
\* nonce and block number, whatever else they return (the hash of the best
\* block) and in whatever order their requests alternate, agree on the
\* version byte, the signer, the era bytes, the nonce, the tip and the call
\* bytes and differ at most in the signature bytes; when the signing
\* primitive draws the same randomness the outputs are byte-identical.
C24_RebuildDiffersOnlyInSignature ==
    (/\ Rebuilt
     /\ bld.calls[1].reads.account_info.nonce = bld.calls[2].reads.account_info.nonce
     /\ bld.calls[1].reads.current_block = bld.calls[2].reads.current_block) =>
        LET a == bld.calls[1].x
            b == bld.calls[2].x
        IN /\ SubSeq(a.final, SignatureStart(a) + 1, SignatureStart(a) + Len(a.signature))
                  = a.signature
           /\ SubSeq(b.final, SignatureStart(b) + 1, SignatureStart(b) + Len(b.signature))
                  = b.signature
           /\ WithoutSignature(a) = WithoutSignature(b)
           /\ a.extrinsic[1] = VersionByte /\ b.extrinsic[1] = VersionByte
           /\ a.signer = b.signer
           /\ a.extra = b.extra
           /\ a.call = b.call
           /\ bld.calls[1].r = bld.calls[2].r => a.final = b.final

\* the second build read another block hash and drew the same randomness
C24_Witness ==
    /\ Rebuilt
    /\ bld.args.netuid = 300
    /\ bld.calls[1].reads # bld.calls[2].reads
    /\ bld.calls[1].reads.block_hash # bld.calls[2].reads.block_hash
    /\ bld.calls[1].r = bld.calls[2].r
    /\ bld.calls[1].x.final = bld.calls[2].x.final

\* C30: for a burned-registration call the signing payload has one fixed
\* length, whatever the netuid, hotkey, burn amount, nonce and block number;
\* the length is below the 256-byte threshold, so the payload itself is
\* signed and never its hash.
C30_BurnedPayloadSignedDirectly ==
    ((Built \/ Rebuilt) /\ bld.args.netuid # 0) =>
        /\ Len(bld.calls[1].x.payload) = 64
        /\ Len(bld.calls[1].x.payload) < 256
        /\ bld.calls[1].x.signed = bld.calls[1].x.payload

C30_Witness ==
    /\ Built
    /\ bld.args.netuid = 300
    /\ bld.nonce > 255
    /\ bld.block_number > era_period
    /\ Len(bld.calls[1].x.signed) = 64

(***************************************************************************)
(* Claims about register_to_subnet and verify_registration (Spec).         *)
(***************************************************************************)
\* the checks verify_registration has started: the Uids requests after the
\* submission
ChecksAfterSubmit ==
    LET sub == CHOOSE i \in 1..Len(rpcLog) : rpcLog[i][1] = "author_submitExtrinsic" IN
    Cardinality({i \in (sub + 1)..Len(rpcLog) : rpcLog[i] = StorageReq("Uids")})

\* C28: verify_registration makes at most 5 checks, stops at the first one
\* that finds the neuron, and returns success when none of the 5 finds it:
\* after a successful submission register_to_subnet returns success whether
\* or not the registration was seen, and returns an error only when a
\* verification read returned that error.
C28_VerificationNeverRejects ==
    (op = "register_to_subnet" /\ ret = "verify") =>
        /\ Submitted
        /\ ChecksAfterSubmit <= 5
        /\ ChecksAfterSubmit = (IF pc = "cr_Uids" THEN loc.attempt - 1 ELSE loc.attempt)
        /\ pc = "done" =>
               /\ result.tag \in {"Ok", "Err", "Panic"}
               /\ result.tag = "Ok" =>
                      IF cr.out.val.some THEN result = Ok("verified")
                      ELSE ChecksAfterSubmit = 5
               /\ result.tag = "Err" => (cr.out = result /\ result.err \in {"transport", "hex"})
        /\ (cr.out.tag = "Ok" /\ cr.out.val.some) => pc = "done"
        /\ (cr.out.tag = "Ok" /\ ~cr.out.val.some /\ loc.attempt = 5 /\ pc # "cr_Neurons")
              => (pc = "done" /\ result.tag = "Ok")

C28_Witness ==
    /\ op = "register_to_subnet"
    /\ ret = "verify"
    /\ pc = "done"
    /\ ChecksAfterSubmit = 5
    /\ cr.out = Ok(None)
    /\ result.tag = "Ok"

\* C29: in register_to_subnet the registration check is the first chain
\* operation, and when it finds the hotkey registered the workflow returns
\* success at once: no subnet read, no block read, no balance read, no
\* extrinsic and no submission.
C29_AlreadyRegisteredStopsAtOnce ==
    op = "register_to_subnet" =>
        /\ rpcLog # << >> => rpcLog[1] = StorageReq("Uids")
        /\ (ret = "register" /\ cr.out.tag = "Ok" /\ cr.out.val.some) =>
               /\ pc = "done"
               /\ result.tag = "Ok"
               /\ rpcLog = <<StorageReq("Uids"), StorageReq("Neurons")>>
               /\ ~loc.checked
               /\ ~loc.built

C29_Witness ==
    /\ op = "register_to_subnet"
    /\ ret = "register"
    /\ pc = "done"
    /\ cr.out.tag = "Ok"
    /\ cr.out.val.some
    /\ result.tag = "Ok"
    /\ Len(rpcLog) = 2

(***************************************************************************)
(* auto_register_with_retry (register.rs:337-371): the loop around         *)
(* register_to_subnet.  Every attempt runs the workflow of Spec from its   *)
(* start, with the same arguments and no explicit burn amount.  The        *)
(* request log is kept per attempt: when an attempt has returned, the      *)
(* extrinsics it submitted are added to ar.submitted and the log starts    *)
(* anew.                                                                   *)
(***************************************************************************)
\* largest max_retries drawn
MaxRetries == 2

\* a variant that sleeps after every failed attempt, the last one included
AfterAttemptAlwaysSleeps(r, attempt, max_retries) ==
    IF r.tag = "Ok" THEN "returned"
    ELSE IF r.tag = "Panic" THEN "aborted"
    ELSE "sleep"

\* register.rs:355-367: where the loop goes when the attempt returned r
AfterAttempt(r, attempt, max_retries) ==
    IF r.tag = "Ok" THEN "returned"
    ELSE IF r.tag = "Panic" THEN "aborted"
    ELSE IF attempt < max_retries THEN "sleep"
    ELSE "loop"

InitRetry ==
    /\ op = "register_to_subnet"
    /\ pc = "idle"
    /\ ret = "idle"
    /\ loc \in {[Loc0 EXCEPT !.args = a] : a \in RegisterArgs}
    /\ rpcLog = << >>
    /\ result = Pending
    /\ devs = 0
    /\ si = SiFresh(Loc0.netuid)
    /\ cr = CrFresh(Loc0.netuid, Loc0.hotkey)
    /\ chain = IdleFlows
    /\ flows = IdleFlows
    /\ bld = IdleBuilder
    /\ rd = IdleReader
    /\ \E max_retries \in 0..MaxRetries :
           ar = [pc |-> "loop", max_retries |-> max_retries, attempt |-> 0,
                 failed |-> 0, sleeps |-> 0, submitted |-> 0, out |-> Pending]

\* the extrinsics submitted according to a request log
SubmitRequests(log) ==
    Cardinality({i \in 1..Len(log) : log[i][1] = "author_submitExtrinsic"})

\* register.rs:349-354: the next pass of `for attempt in 1..=max_retries`
ArAttempt ==
    /\ ar.pc = "loop"
    /\ ar.attempt < ar.max_retries
    /\ ar' = [ar EXCEPT !.pc = "running", !.attempt = @ + 1]
    /\ pc' = "rs_load_keys"
    /\ ret' = "register"
    /\ loc' = [Loc0 EXCEPT !.args = loc.args]
    /\ result' = Pending
    /\ si' = SiFresh(Loc0.netuid)
    /\ cr' = CrFresh(Loc0.netuid, Loc0.hotkey)
    /\ UNCHANGED <<op, rpcLog, devs, flVars, bldVars, rdVars>>

\* register.rs:355-367: the match on the attempt's result
ArAttemptDone ==
    /\ ar.pc = "running"
    /\ pc = "done"
    /\ LET next == AfterAttempt(result, ar.attempt, ar.max_retries) IN
       ar' = [ar EXCEPT !.pc = next,
                        !.failed = IF result.tag = "Err" THEN @ + 1 ELSE @,
                        !.submitted = @ + SubmitRequests(rpcLog),
                        !.out = IF next = "returned" THEN Ok("registered")
                                ELSE IF next = "aborted" THEN Panic
                                ELSE @]
    /\ rpcLog' = << >>
    /\ UNCHANGED <<op, pc, ret, loc, result, devs, si, cr, flVars, bldVars, rdVars>>

\* register.rs:364  sleep(Duration::from_secs(30))
ArSleep ==
    /\ ar.pc = "sleep"
    /\ ar' = [ar EXCEPT !.pc = "loop", !.sleeps = @ + 1]
    /\ UNCHANGED <<op, pc, ret, loc, rpcLog, result, devs, si, cr, flVars, bldVars, rdVars>>

\* register.rs:370: the loop is over
ArExhausted ==
    /\ ar.pc = "loop"
    /\ ar.attempt >= ar.max_retries
    /\ ar' = [ar EXCEPT !.pc = "returned",
                        !.out = Err("All registration attempts failed", "")]
    /\ UNCHANGED <<op, pc, ret, loc, rpcLog, result, devs, si, cr, flVars, bldVars, rdVars>>

\* the steps of register_to_subnet, which calls get_subnet_info with
\* show_info = false (register.rs:79) and so never debug_account_info
NextRetry ==
    \/ SiSubnetworkN
    \/ SiTotalNetworks
    \/ SiField
    \/ SiBlockHash
    \/ SiHeader
    \/ CrUids
    \/ CrNeurons
    \/ RsLoadKeys
    \/ RsBlockHash
    \/ RsHeader
    \/ PbBalance
    \/ SeAccount
    \/ SeBlockHash
    \/ SeHeader
    \/ SeGenesis
    \/ SeBlockHash2
    \/ SeSubmit
    \/ VrSleep
    \/ ArAttempt
    \/ ArAttemptDone
    \/ ArSleep
    \/ ArExhausted

SpecRetry == InitRetry /\ [][NextRetry]_vars

(***************************************************************************)
(* Claims about the retry specification SpecRetry.                         *)
(***************************************************************************)
\* the extrinsics submitted so far in the run
Submissions == ar.submitted + SubmitRequests(rpcLog)

\* C26 as stated: one run of auto_register_with_retry submits at most one
\* registration extrinsic, whatever happens during verification.
C26_AtMostOneSubmissionPerRun == Submissions <= 1

RetryEnded == ar.pc \in {"returned", "aborted"}

\* the requests one register_to_subnet call can send: the check (2), the
\* count and the snapshot fields, two current blocks (2 each), the balance,
\* the five reads of the builder, the submission, and two per verification
\* check
RequestsPerAttempt == 2 + 1 + NFields + 4 + 1 + 5 + 1 + 2 * VerifyAttempts

\* C27: auto_register_with_retry ends after at most max_retries calls of
\* register_to_subnet, each of which ends after a bounded number of
\* requests: it returns success at the first attempt that succeeds and
\* makes no further attempt, returns the "all attempts failed" error exactly
\* when every attempt failed (with no attempt at all when max_retries is 0),
\* and sleeps only when another attempt follows.
C27_RetryLoopBounded ==
    /\ ar.attempt <= ar.max_retries
    /\ Len(rpcLog) <= RequestsPerAttempt
    /\ ar.pc = "running" => (ar.failed = ar.attempt - 1 /\ ar.sleeps = ar.attempt - 1)
    /\ ar.pc = "sleep" => (ar.attempt < ar.max_retries /\ ar.failed = ar.attempt)
    /\ ar.sleeps <= Max(ar.max_retries - 1, 0)
    /\ RetryEnded => pc \in {"idle", "done"}
    /\ (ar.pc = "returned" /\ ar.out.tag = "Ok") =>
           /\ result.tag = "Ok"
           /\ ar.failed = ar.attempt - 1
           /\ ar.sleeps = ar.failed
    /\ (ar.pc = "returned" /\ ar.out.tag = "Err") =>
           /\ ar.out.err = "All registration attempts failed"
           /\ ar.attempt = ar.max_retries
           /\ ar.failed = ar.max_retries
           /\ ar.sleeps = Max(ar.max_retries - 1, 0)
    /\ RetryEnded => (ar.out.tag = "Err" <=> ar.failed = ar.max_retries)
    /\ ar.max_retries = 0 => (ar.attempt = 0 /\ pc = "idle" /\ rpcLog = << >>)

C27_Witness ==
    /\ ar.pc = "returned"
    /\ ar.max_retries = 2
    /\ ar.attempt = 2
    /\ ar.failed = 1
    /\ ar.sleeps = 1
    /\ ar.out.tag = "Ok"

====
